---- MODULE Spec2Model ----
(***************************************************************************)
(* Model of the tractor operator bot (src/src/index.ts) and of the payload *)
(* codec and requisition loader it uses (src/src/tractor-utils.ts).        *)
(*                                                                         *)
(* Conventions of the model                                                *)
(*  - A JavaScript string is a sequence of one-character strings.          *)
(*  - A hex byte string ("0x...") is a sequence of integer words; a word   *)
(*    below zero stands for a character that is not a hex digit.           *)
(*  - The ABI wire format is modelled as a sequential layout: a function   *)
(*    call is its selector word followed by its arguments; a static value  *)
(*    is one word, a dynamic array or a bytes value is its length followed *)
(*    by its elements, a tuple is its fields in order.                     *)
(*  - An address is a number on the wire and an EIP-55 checksummed string  *)
(*    once decoded by ethers.                                              *)
(***************************************************************************)
EXTENDS Integers, Sequences, FiniteSets, TLC

VARIABLES
    envMode,            \* process.env.EXECUTION_MODE
    publishEvents,      \* ledger: the PublishRequisition log (append-only)
    cancelEvents,       \* ledger: the CancelBlueprint log (append-only)
    clock,              \* the last value Date.now() returned
    pc,                 \* where the monitor is
    cycle,              \* the number of monitor invocations started, counted up to MaxCycles
    fetchedPublish,     \* this cycle: the publish events queryFilter returned
    fetchedCancel,      \* this cycle: the cancel events queryFilter returned
    requisitions,       \* this cycle: what loadPublishedRequisitions returned
    filterReads,        \* the Date.now() read for each loaded requisition, while filtering
    activeRequisitions, \* this cycle: the requisitions that passed the time filter
    simulationResults,  \* this cycle: one SimulationResult per active requisition
    checkResult,        \* this cycle: what checkForExecutableRequisitions returned
    execIdx,            \* this cycle: the position of the execution loop
    execPc,             \* where executeAction is: "none" before and after a call
    callLog,            \* this cycle: the ledger calls made, in order
    timers,             \* the pending setTimeout registrations
    running,            \* the number of monitor invocations entered and not yet finished
    settings,           \* process.env: RPC_URL, PRIVATE_KEY, PROTOCOL_ADDRESS, CHECK_INTERVAL
    proc,               \* the process: loading the module, started, or exited with a code
    decInput,           \* decoder harness: the value handed to decodeSowTractorData
    decOutput,          \* decoder harness: what the call produced
    decPc,              \* decoder harness: "off" | "ready" | "done"
    tvInput,            \* value codec harness: the integer or string a TokenValue is made of
    tvToken,            \* value codec harness: the TokenValue
    tvResult,           \* value codec harness: what toBigInt() produced
    tvPc,               \* value codec harness: "off" | "ready" | "built" | "done"
    ldCall,             \* loader harness: the arguments and the outcome of the last call
    ldPrev,             \* loader harness: what the call before the last one returned
    failedBefore        \* observer: the hashes whose dry-run or submission failed in an
                        \* earlier cycle (read by no action of the bot)

decVars == <<decInput, decOutput, decPc>>

codecVars == <<tvInput, tvToken, tvResult, tvPc>>

loadVars == <<ldCall, ldPrev>>

obsVars == <<failedBefore>>

harnessVars == <<decVars, codecVars, loadVars, obsVars>>

ledgerVars == <<publishEvents, cancelEvents>>

checkVars == <<fetchedPublish, fetchedCancel, requisitions, filterReads, activeRequisitions,
               simulationResults, checkResult>>

schedVars == <<timers, running>>

procVars == <<settings, proc>>

botVars == <<envMode, clock, pc, cycle, checkVars, execIdx, execPc, callLog, schedVars,
             procVars>>

vars == <<ledgerVars, botVars, harnessVars>>

----------------------------------------------------------------------------
(* JavaScript strings *)

UpperChars == <<"A", "B", "C", "D", "E", "F", "P", "R", "V", "I", "W", "X", "U", "T">>

LowerChars == <<"a", "b", "c", "d", "e", "f", "p", "r", "v", "i", "w", "x", "u", "t">>

\* String.prototype.toLowerCase on one character
LowerChar(c) ==
    IF \E i \in DOMAIN UpperChars : UpperChars[i] = c
    THEN LowerChars[CHOOSE i \in DOMAIN UpperChars : UpperChars[i] = c]
    ELSE c

\* String.prototype.toLowerCase
toLowerCase(s) == [i \in DOMAIN s |-> LowerChar(s[i])]

----------------------------------------------------------------------------
(* Addresses *)

ZERO_ADDRESS == 0

WALLET_ADDRESS == 1

OTHER_OPERATOR == WALLET_ADDRESS + 1

SOW_BLUEPRINT_V0_ADDRESS == 3

OTHER_TARGET == SOW_BLUEPRINT_V0_ADDRESS + 1

PUBLISHER_ADDRESS == SOW_BLUEPRINT_V0_ADDRESS + 2

AddressIds == {ZERO_ADDRESS, WALLET_ADDRESS, OTHER_OPERATOR, SOW_BLUEPRINT_V0_ADDRESS,
               OTHER_TARGET, PUBLISHER_ADDRESS}

\* ethers.getAddress: the checksummed (mixed-case) text of an address
getAddress(id) ==
    CASE id = ZERO_ADDRESS -> <<"0", "x", "0", "0">>
      [] id = WALLET_ADDRESS -> <<"0", "x", "A", "b">>
      [] id = OTHER_OPERATOR -> <<"0", "x", "c", "D">>
      [] id = SOW_BLUEPRINT_V0_ADDRESS -> <<"0", "x", "7", "F">>
      [] id = OTHER_TARGET -> <<"0", "x", "4", "e">>
      [] OTHER -> <<"0", "x", "f", "5">>

----------------------------------------------------------------------------
(* ABI wire format *)

WORD_BITS == 12

ADDRESS_BITS == 8

\* the number of values of one ABI word (2^256 in the EVM)
WordModulus == 2 ^ WORD_BITS

\* the non-hex character of a malformed hex string
NOT_HEX == 0 - 1

SEL_advancedFarm == 11

SEL_advancedPipe == 12

SEL_functionPaused == 21

SEL_getLastExecutedSeason == 22

SEL_getPintosLeftToSow == 23

SEL_owner == 24

SEL_pauseFunction == 25

SEL_renounceOwnership == 26

SEL_sowBlueprintv0 == 27

SEL_transferOwnership == 28

SEL_unpauseFunction == 29

SEL_validateParamsAndReturnBeanstalkState == 30

SEL_validateParamsAndReturnBeanstalkStateArray == 31

\* the function fragments of beanstalkAbi: selector -> name ("" when absent)
beanstalkAbi(sel) ==
    CASE sel = SEL_advancedFarm -> "advancedFarm"
      [] sel = SEL_advancedPipe -> "advancedPipe"
      [] OTHER -> ""

\* the function fragments of sowBlueprintv0ABI: selector -> name ("" when absent)
sowBlueprintv0ABI(sel) ==
    CASE sel = SEL_functionPaused -> "functionPaused"
      [] sel = SEL_getLastExecutedSeason -> "getLastExecutedSeason"
      [] sel = SEL_getPintosLeftToSow -> "getPintosLeftToSow"
      [] sel = SEL_owner -> "owner"
      [] sel = SEL_pauseFunction -> "pauseFunction"
      [] sel = SEL_renounceOwnership -> "renounceOwnership"
      [] sel = SEL_sowBlueprintv0 -> "sowBlueprintv0"
      [] sel = SEL_transferOwnership -> "transferOwnership"
      [] sel = SEL_unpauseFunction -> "unpauseFunction"
      [] sel = SEL_validateParamsAndReturnBeanstalkState -> "validateParamsAndReturnBeanstalkState"
      [] sel = SEL_validateParamsAndReturnBeanstalkStateArray -> "validateParamsAndReturnBeanstalkStateArray"
      [] OTHER -> ""

\* int256 on the wire: two's complement
ToTwos(v) == IF v < 0 THEN WordModulus + v ELSE v

FromTwos(w) == IF w >= WordModulus \div 2 THEN w - WordModulus ELSE w

\* ethers getBytes: the text is "0x" followed by hex digits only
IsHexString(data) == \A i \in DOMAIN data : data[i] >= 0

ParseFail == [ok |-> FALSE, val |-> <<>>, rest |-> <<>>]

ParseOk(v, r) == [ok |-> TRUE, val |-> v, rest |-> r]

\* n words, or a buffer overrun
ReadWords(d, n) ==
    IF Len(d) >= n
    THEN ParseOk(SubSeq(d, 1, n), SubSeq(d, n + 1, Len(d)))
    ELSE ParseFail

\* one value of a static or one-level dynamic type:
\*   "word"          uint256, int256, bytes32, bytes4: one word
\*   "address"       AddressCoder.decode: one word that fits 20 bytes
\*   "bytes"         a bytes value or an array of words: the length, then the elements
\*   "addressArray"  address[]: the length, then words that fit 20 bytes
ReadField(kind, d) ==
    CASE kind = "word" ->
           IF Len(d) >= 1 THEN ParseOk(d[1], Tail(d)) ELSE ParseFail
      [] kind = "address" ->
           IF Len(d) >= 1 /\ d[1] < 2 ^ ADDRESS_BITS THEN ParseOk(d[1], Tail(d)) ELSE ParseFail
      [] kind = "bytes" ->
           IF Len(d) >= 1 THEN ReadWords(Tail(d), d[1]) ELSE ParseFail
      [] OTHER ->
           IF Len(d) >= 1 /\ Len(d) >= 1 + d[1]
              /\ \A i \in 2..(1 + d[1]) : d[i] < 2 ^ ADDRESS_BITS
           THEN ReadWords(Tail(d), d[1])
           ELSE ParseFail

\* a parsed value put in front of the values parsed after it
Prepend(v, more) == IF more.ok THEN ParseOk(<<v>> \o more.val, more.rest) ELSE ParseFail

\* a tuple: its fields in order
RECURSIVE ReadFields(_, _)
RECURSIVE ReadFieldsAfter(_, _)
ReadFields(schema, d) ==
    IF schema = <<>> THEN ParseOk(<<>>, d)
    ELSE ReadFieldsAfter(ReadField(Head(schema), d), Tail(schema))

ReadFieldsAfter(first, schema) ==
    IF first.ok THEN Prepend(first.val, ReadFields(schema, first.rest)) ELSE ParseFail

\* tuple[n]: n tuples in order
RECURSIVE ReadTuples(_, _, _)
RECURSIVE ReadTuplesAfter(_, _, _)
ReadTuples(schema, n, d) ==
    IF n = 0 THEN ParseOk(<<>>, d)
    ELSE ReadTuplesAfter(ReadFields(schema, d), schema, n - 1)

ReadTuplesAfter(first, schema, n) ==
    IF first.ok THEN Prepend(first.val, ReadTuples(schema, n, first.rest)) ELSE ParseFail

\* tuple[]: the length, then the tuples
ReadTupleArray(schema, d) ==
    IF Len(d) >= 1 THEN ReadTuples(schema, d[1], Tail(d)) ELSE ParseFail

\* struct LibFunction.Call
FarmCallSchema == <<"bytes", "bytes">>

\* struct LibFunction.Pipe
PipeCallSchema == <<"address", "bytes", "bytes">>

\* the params tuple of the sow ABI: sowParams (uint8[], 3 + 5 uint256) and opParams
\* (address[], address, int256)
SowStructSchema ==
    <<"bytes", "word", "word", "word", "word", "word", "word", "word", "word",
      "addressArray", "address", "word">>

FarmCallOf(t) == [callData |-> t[1], clipboard |-> t[2]]

PipeCallOf(t) == [target |-> getAddress(t[1]), callData |-> t[2], clipboard |-> t[3]]

\* the decoded params tuple; a uint8 keeps the low byte of its word
SowStructOf(t) ==
    [kind |-> "struct",
     sowParams |->
       [sourceTokenIndices |-> [i \in DOMAIN t[1] |-> t[1][i] % 256],
        sowAmounts |-> [totalAmountToSow |-> t[2],
                        minAmountToSowPerSeason |-> t[3],
                        maxAmountToSowPerSeason |-> t[4]],
        minTemp |-> t[5],
        maxPodlineLength |-> t[6],
        maxGrownStalkPerBdv |-> t[7],
        runBlocksAfterSunrise |-> t[8],
        slippageRatio |-> t[9]],
     opParams |->
       [whitelistedOperators |-> [i \in DOMAIN t[10] |-> getAddress(t[10][i])],
        tipAddress |-> getAddress(t[11]),
        operatorTipAmount |-> FromTwos(t[12])]]

WordArg(w) == [kind |-> "word", word |-> w]

ArrayArg(items) == [kind |-> "array", items |-> items]

AddressArg(w) == [kind |-> "address", address |-> getAddress(w)]

\* the argument list built from the parsed fields of the function's inputs
ArgsOf(name, t) ==
    CASE name = "advancedFarm" -> <<[i \in DOMAIN t[1] |-> FarmCallOf(t[1][i])]>>
      [] name = "advancedPipe" -> <<[i \in DOMAIN t[1] |-> PipeCallOf(t[1][i])], t[2]>>
      [] name = "sowBlueprintv0" -> <<SowStructOf(t)>>
      [] name = "validateParamsAndReturnBeanstalkState" ->
           <<SowStructOf(t), WordArg(t[13]), AddressArg(t[14])>>
      [] name = "validateParamsAndReturnBeanstalkStateArray" ->
           <<ArrayArg([i \in DOMAIN t[1] |-> SowStructOf(t[1][i])]), ArrayArg(t[2]),
             ArrayArg([i \in DOMAIN t[3] |-> getAddress(t[3][i])])>>
      [] name \in {"owner", "renounceOwnership"} -> <<>>
      [] name = "transferOwnership" -> <<AddressArg(t[1])>>
      [] OTHER -> <<WordArg(t[1])>>

\* the parsed fields of the inputs of the named function
ReadInputs(name, d) ==
    CASE name = "advancedFarm" ->
           ReadFieldsAfter(ReadTupleArray(FarmCallSchema, d), <<>>)
      [] name = "advancedPipe" ->
           ReadFieldsAfter(ReadTupleArray(PipeCallSchema, d), <<"word">>)
      [] name = "sowBlueprintv0" -> ReadFields(SowStructSchema, d)
      [] name = "validateParamsAndReturnBeanstalkState" ->
           ReadFields(SowStructSchema \o <<"word", "address">>, d)
      [] name = "validateParamsAndReturnBeanstalkStateArray" ->
           ReadFieldsAfter(ReadTupleArray(SowStructSchema, d), <<"bytes", "addressArray">>)
      [] name \in {"owner", "renounceOwnership"} -> ParseOk(<<>>, d)
      [] name = "transferOwnership" -> ReadFields(<<"address">>, d)
      [] OTHER -> ReadFields(<<"word">>, d)

\* Interface.getFunction(selector) of the named ABI: the fragment's name, "" when absent
getFunction(abi, sel) ==
    IF abi = "beanstalkAbi" THEN beanstalkAbi(sel) ELSE sowBlueprintv0ABI(sel)

ParseThrows == [status |-> "throw", name |-> "", args |-> <<>>]

ParseNull == [status |-> "null", name |-> "", args |-> <<>>]

\* the TransactionDescription of a fragment and its parsed inputs; the decode throws
\* when the inputs do not parse
TransactionDescription(name, inputs) ==
    IF inputs.ok
    THEN [status |-> "ok", name |-> name, args |-> ArgsOf(name, inputs.val)]
    ELSE ParseThrows

\* Interface.parseTransaction({data}): throws when the text is not hex or the arguments
\* do not decode, null when no fragment has the selector, else the decoded call
parseTransaction(abi, data) ==
    IF ~IsHexString(data) THEN ParseThrows
    ELSE IF Len(data) < 1 THEN ParseNull
    ELSE IF getFunction(abi, data[1]) = "" THEN ParseNull
    ELSE TransactionDescription(getFunction(abi, data[1]),
                                ReadInputs(getFunction(abi, data[1]), Tail(data)))

\* Interface.encodeFunctionData("sowBlueprintv0", [struct])
EncodeSowBlueprintv0(s) ==
    <<SEL_sowBlueprintv0>>
    \o <<Len(s.sowParams.sourceTokenIndices)>> \o s.sowParams.sourceTokenIndices
    \o <<s.sowParams.sowAmounts.totalAmountToSow,
         s.sowParams.sowAmounts.minAmountToSowPerSeason,
         s.sowParams.sowAmounts.maxAmountToSowPerSeason,
         s.sowParams.minTemp,
         s.sowParams.maxPodlineLength,
         s.sowParams.maxGrownStalkPerBdv,
         s.sowParams.runBlocksAfterSunrise,
         s.sowParams.slippageRatio>>
    \o <<Len(s.opParams.whitelistedOperators)>> \o s.opParams.whitelistedOperators
    \o <<s.opParams.tipAddress, ToTwos(s.opParams.operatorTipAmount)>>

\* one pipe step (target, callData, clipboard) on the wire
EncodePipe(p) ==
    <<p.target>> \o <<Len(p.callData)>> \o p.callData \o <<Len(p.clipboard)>> \o p.clipboard

RECURSIVE EncodePipes(_)
EncodePipes(ps) == IF ps = <<>> THEN <<>> ELSE EncodePipe(Head(ps)) \o EncodePipes(Tail(ps))

\* Interface.encodeFunctionData("advancedPipe", [pipes, outputIndex])
EncodeAdvancedPipe(pipes, outputIndex) ==
    <<SEL_advancedPipe, Len(pipes)>> \o EncodePipes(pipes) \o <<outputIndex>>

\* one farm step (callData, clipboard) on the wire
EncodeFarmCall(c) ==
    <<Len(c.callData)>> \o c.callData \o <<Len(c.clipboard)>> \o c.clipboard

RECURSIVE EncodeFarmCalls(_)
EncodeFarmCalls(cs) ==
    IF cs = <<>> THEN <<>> ELSE EncodeFarmCall(Head(cs)) \o EncodeFarmCalls(Tail(cs))

\* Interface.encodeFunctionData("advancedFarm", [calls])
EncodeAdvancedFarm(calls) == <<SEL_advancedFarm, Len(calls)>> \o EncodeFarmCalls(calls)

\* an encoder that puts the pipe call in a batch of two steps
EncodeSowPayloadTwoSteps(sowBlueprintStruct) ==
    [data |-> EncodeAdvancedFarm(
                <<[callData |-> EncodeAdvancedPipe(
                                  <<[target |-> SOW_BLUEPRINT_V0_ADDRESS,
                                     callData |-> EncodeSowBlueprintv0(sowBlueprintStruct),
                                     clipboard |-> <<0, 0>>]>>, 0),
                   clipboard |-> <<>>],
                  [callData |-> <<SEL_owner>>, clipboard |-> <<>>]>>),
     operatorPasteInstrs |-> <<>>,
     rawCall |-> EncodeSowBlueprintv0(sowBlueprintStruct)]

\* the three-layer payload built at the end of createSowTractorData
EncodeSowPayload(sowBlueprintStruct) ==
    LET sowBlueprintCall == EncodeSowBlueprintv0(sowBlueprintStruct)
        pipeCall == EncodeAdvancedPipe(
                      <<[target |-> SOW_BLUEPRINT_V0_ADDRESS, callData |-> sowBlueprintCall,
                         clipboard |-> <<0, 0>>]>>, 0)
        data == EncodeAdvancedFarm(<<[callData |-> pipeCall, clipboard |-> <<>>]>>)
    IN  [data |-> data, operatorPasteInstrs |-> <<>>, rawCall |-> sowBlueprintCall]

----------------------------------------------------------------------------
(* TokenValue (tractor-utils.ts lines 37-107) *)

DigitChars == <<"0", "1", "2", "3", "4", "5", "6", "7", "8", "9">>

IsDigit(c) == \E i \in DOMAIN DigitChars : DigitChars[i] = c

DigitValue(c) == (CHOOSE i \in DOMAIN DigitChars : DigitChars[i] = c) - 1

\* the decimal digits of a natural number
RECURSIVE NatToString(_)
NatToString(n) ==
    IF n < 10 THEN <<DigitChars[n + 1]>>
    ELSE Append(NatToString(n \div 10), DigitChars[(n % 10) + 1])

\* BigInt.prototype.toString()
BigIntToString(v) == IF v < 0 THEN <<"-">> \o NatToString(0 - v) ELSE NatToString(v)

\* the value of a sequence of decimal digits
RECURSIVE DigitsToNat(_)
DigitsToNat(s) ==
    IF s = <<>> THEN 0
    ELSE DigitsToNat(SubSeq(s, 1, Len(s) - 1)) * 10 + DigitValue(s[Len(s)])

AllDigits(s) == \A i \in DOMAIN s : IsDigit(s[i])

\* BigInt(string): the empty string is 0n, an optional sign and decimal digits are
\* the number, anything else is a SyntaxError
StringToBigInt(s) ==
    IF s = <<>> THEN [threw |-> FALSE, value |-> 0]
    ELSE IF AllDigits(s) THEN [threw |-> FALSE, value |-> DigitsToNat(s)]
    ELSE IF Len(s) > 1 /\ s[1] = "-" /\ AllDigits(Tail(s))
    THEN [threw |-> FALSE, value |-> 0 - DigitsToNat(Tail(s))]
    ELSE IF Len(s) > 1 /\ s[1] = "+" /\ AllDigits(Tail(s))
    THEN [threw |-> FALSE, value |-> DigitsToNat(Tail(s))]
    ELSE [threw |-> TRUE, value |-> 0]

\* BigInt division by 10: the quotient is rounded towards zero
QuotTen(v) == IF v >= 0 THEN v \div 10 ELSE 0 - ((0 - v) \div 10)

\* value / 10n ** BigInt(decimals)
RECURSIVE DivPow10(_, _)
DivPow10(v, decimals) ==
    IF decimals = 0 \/ v = 0 THEN v ELSE DivPow10(QuotTen(v), decimals - 1)

\* value % 10n ** BigInt(decimals): the remainder has the sign of the value
RemPow10(v, decimals) ==
    IF DivPow10(v, decimals) = 0 THEN v
    ELSE v - DivPow10(v, decimals) * (10 ^ decimals)

RECURSIVE Zeros(_)
Zeros(n) == IF n <= 0 THEN <<>> ELSE <<"0">> \o Zeros(n - 1)

\* String.prototype.padStart(n, "0")
padStart(s, n) == Zeros(n - Len(s)) \o s

\* String.prototype.padEnd(n, "0")
padEnd(s, n) == s \o Zeros(n - Len(s))

\* String.prototype.slice(0, n)
sliceTo(s, n) == SubSeq(s, 1, IF Len(s) < n THEN Len(s) ELSE n)

\* String.prototype.replace(/0+$/, "")
RECURSIVE TrimTrailingZeros(_)
TrimTrailingZeros(s) ==
    IF s # <<>> /\ s[Len(s)] = "0" THEN TrimTrailingZeros(SubSeq(s, 1, Len(s) - 1)) ELSE s

\* the position of the first c in s at or after i, Len(s) + 1 when there is none
RECURSIVE IndexFrom(_, _, _)
IndexFrom(s, c, i) ==
    IF i > Len(s) THEN Len(s) + 1
    ELSE IF s[i] = c THEN i
    ELSE IndexFrom(s, c, i + 1)

\* const [wholePart, fractionalPart = ""] = value.split("."): the first two pieces
SplitWhole(s) == SubSeq(s, 1, IndexFrom(s, ".", 1) - 1)

SplitFraction(s) ==
    SubSeq(s, IndexFrom(s, ".", 1) + 1, IndexFrom(s, ".", IndexFrom(s, ".", 1) + 1) - 1)

\* new TokenValue(value, decimals)
TokenValue(value, decimals) == [value |-> value, decimals |-> decimals]

\* lines 56-67: the formatted string, given the two parts
FormatParts(wholePart, trimmedFractionalPart) ==
    IF trimmedFractionalPart # <<>>
    THEN BigIntToString(wholePart) \o <<".">> \o trimmedFractionalPart
    ELSE BigIntToString(wholePart)

\* TokenValue.fromBlockchain(value, decimals)
fromBlockchain(value, decimals) ==
    TokenValue(
      FormatParts(DivPow10(value, decimals),
                  TrimTrailingZeros(padStart(BigIntToString(RemPow10(value, decimals)),
                                             decimals))),
      decimals)

\* TokenValue.prototype.toBigInt(); the result is thrown or returned
toBigInt(tv) ==
    StringToBigInt(SplitWhole(tv.value)
                   \o sliceTo(padEnd(SplitFraction(tv.value), tv.decimals), tv.decimals))

\* TokenValue.prototype.toHuman()
toHuman(tv) == tv.value

----------------------------------------------------------------------------
(* decodeSowTractorData *)

\* JavaScript values handed to the decoder: a string, or undefined
JsString(words) == [isString |-> TRUE, words |-> words]

JsUndefined == [isString |-> FALSE, words |-> <<>>]

Null == [kind |-> "null"]

FarmFromMode_INTERNAL == 0

Returned(v) == [threw |-> FALSE, value |-> v]

Thrown == [threw |-> TRUE, value |-> Null]

\* lines 744-803: the result object built from the decoded params
SowBlueprintData(params) ==
    [kind |-> "sowBlueprintv0",
     sourceTokenIndices |-> params.sowParams.sourceTokenIndices,
     sowAmounts |->
       [totalAmountToSow |-> params.sowParams.sowAmounts.totalAmountToSow,
        totalAmountToSowAsString |->
          toHuman(fromBlockchain(params.sowParams.sowAmounts.totalAmountToSow, 6)),
        minAmountToSowPerSeason |-> params.sowParams.sowAmounts.minAmountToSowPerSeason,
        minAmountToSowPerSeasonAsString |->
          toHuman(fromBlockchain(params.sowParams.sowAmounts.minAmountToSowPerSeason, 6)),
        maxAmountToSowPerSeason |-> params.sowParams.sowAmounts.maxAmountToSowPerSeason,
        maxAmountToSowPerSeasonAsString |->
          toHuman(fromBlockchain(params.sowParams.sowAmounts.maxAmountToSowPerSeason, 6))],
     minTemp |-> params.sowParams.minTemp,
     minTempAsString |-> toHuman(fromBlockchain(params.sowParams.minTemp, 6)),
     maxPodlineLength |-> params.sowParams.maxPodlineLength,
     maxPodlineLengthAsString |-> toHuman(fromBlockchain(params.sowParams.maxPodlineLength, 6)),
     maxGrownStalkPerBdv |-> params.sowParams.maxGrownStalkPerBdv,
     maxGrownStalkPerBdvAsString |->
       toHuman(fromBlockchain(params.sowParams.maxGrownStalkPerBdv, 6)),
     runBlocksAfterSunrise |-> params.sowParams.runBlocksAfterSunrise,
     runBlocksAfterSunriseAsString |-> BigIntToString(params.sowParams.runBlocksAfterSunrise),
     slippageRatio |-> params.sowParams.slippageRatio,
     slippageRatioAsString |-> toHuman(fromBlockchain(params.sowParams.slippageRatio, 18)),
     operatorParams |->
       [whitelistedOperators |-> params.opParams.whitelistedOperators,
        tipAddress |-> params.opParams.tipAddress,
        operatorTipAmount |-> params.opParams.operatorTipAmount,
        operatorTipAmountAsString |->
          toHuman(fromBlockchain(params.opParams.operatorTipAmount, 6))],
     fromMode |-> FarmFromMode_INTERNAL]

\* a try without its catch
Rethrow(r) == r

\* the catch blocks of lines 810, 815, 820 and 827: the error is logged and control
\* falls to a "return null"
Catch(r) == IF r.threw THEN Returned(Null) ELSE r

\* lines 696-809: the body of the innermost try, given what parseTransaction made of
\* the call. The name of the fragment is not compared: args[0] is used when there is
\* one, and reading sowParams.sourceTokenIndices of an args[0] that is no params tuple
\* throws.
FromSowDecoded(sowDecoded) ==
    IF sowDecoded.status = "throw" THEN Thrown
    ELSE IF sowDecoded.status = "null" THEN Returned(Null)
    ELSE IF Len(sowDecoded.args) = 0 THEN Returned(Null)
    ELSE IF sowDecoded.args[1].kind # "struct" THEN Thrown
    ELSE Returned(SowBlueprintData(sowDecoded.args[1]))

\* lines 695-812: the innermost try: the call is parsed with the sow ABI
DecodeSowLayer(sowBlueprintData) ==
    Catch(FromSowDecoded(parseTransaction("sowBlueprintv0ABI", sowBlueprintData)))

\* lines 654-814: the body of the advancedPipe try, given the parsed call. The target
\* of the first pipe is logged, and compared only inside console.log; the callData of
\* the first pipe is decoded whatever the target is.
FromPipeDecoded(advancedPipeDecoded) ==
    IF advancedPipeDecoded.status = "throw" THEN Thrown
    ELSE IF advancedPipeDecoded.status = "null" THEN Returned(Null)
    ELSE IF advancedPipeDecoded.name # "advancedPipe" THEN Returned(Null)
    ELSE IF Len(advancedPipeDecoded.args[1]) > 0
    THEN DecodeSowLayer(advancedPipeDecoded.args[1][1].callData)
    ELSE Returned(Null)

\* lines 653-817: the advancedPipe try
DecodePipeLayer(pipeCallData) ==
    Catch(FromPipeDecoded(parseTransaction("beanstalkAbi", pipeCallData)))

\* lines 626-819: the body of the advancedFarm try, given the parsed call
FromFarmDecoded(advancedFarmDecoded) ==
    IF advancedFarmDecoded.status = "throw" THEN Thrown
    ELSE IF advancedFarmDecoded.status = "null" THEN Returned(Null)
    ELSE IF advancedFarmDecoded.name # "advancedFarm" THEN Returned(Null)
    ELSE IF Len(advancedFarmDecoded.args[1]) > 0
    THEN DecodePipeLayer(advancedFarmDecoded.args[1][1].callData)
    ELSE Returned(Null)

\* lines 625-822: the advancedFarm try
DecodeFarmLayer(encodedData) ==
    Catch(FromFarmDecoded(parseTransaction("beanstalkAbi", encodedData)))

\* lines 615-826: the body of the outer try; encodedData.substring throws on a value
\* that is no string
DecodeBody(encodedData) ==
    IF ~encodedData.isString THEN Thrown
    ELSE DecodeFarmLayer(encodedData.words)

\* lines 611-834: the outer try/catch
decodeSowTractorData(encodedData) == Catch(DecodeBody(encodedData))

----------------------------------------------------------------------------
(* Payloads *)

MaxGarbageLen == 3

\* a params tuple as createSowTractorData builds it (lines 482-501)
SowStruct(indices, whitelist, tip) ==
    [sowParams |->
       [sourceTokenIndices |-> indices,
        sowAmounts |-> [totalAmountToSow |-> 1000,
                        minAmountToSowPerSeason |-> 100,
                        maxAmountToSowPerSeason |-> 500],
        minTemp |-> 50,
        maxPodlineLength |-> 2000,
        maxGrownStalkPerBdv |-> 30,
        runBlocksAfterSunrise |-> 300,
        slippageRatio |-> 1],
     opParams |->
       [whitelistedOperators |-> whitelist,
        tipAddress |-> ZERO_ADDRESS,
        operatorTipAmount |-> tip]]

SampleStructs ==
    {SowStruct(idx, wl, tip) :
        idx \in {<<>>, <<0>>, <<1, 2>>},
        wl \in {<<>>, <<WALLET_ADDRESS>>, <<OTHER_OPERATOR>>, <<OTHER_OPERATOR, WALLET_ADDRESS>>},
        tip \in {0, 100, -5}}

\* advancedFarm([advancedPipe([(target, innerCall, 0x0000)], 0), 0x])
PayloadWith(target, innerCall) ==
    EncodeAdvancedFarm(
      <<[callData |-> EncodeAdvancedPipe(
                        <<[target |-> target, callData |-> innerCall, clipboard |-> <<0, 0>>]>>, 0),
         clipboard |-> <<>>]>>)

SamplePayload == EncodeSowPayload(SowStruct(<<0>>, <<>>, 100)).data

SampleSowCall == EncodeSowPayload(SowStruct(<<0>>, <<>>, 100)).rawCall

\* payloads the encoder produces
EncoderPayloads == {EncodeSowPayload(s).data : s \in SampleStructs}

\* three well-formed layers, but the pipe step targets another contract
WrongTargetPayloads ==
    {PayloadWith(t, EncodeSowBlueprintv0(s)) :
        t \in {OTHER_TARGET, ZERO_ADDRESS, WALLET_ADDRESS}, s \in SampleStructs}

\* every strict prefix of a well-formed payload
TruncatedPayloads == {SubSeq(SamplePayload, 1, n) : n \in 0..(Len(SamplePayload) - 1)}

\* a well-formed payload with one word replaced
CorruptedPayloads ==
    {[SamplePayload EXCEPT ![i] = w] :
        i \in DOMAIN SamplePayload, w \in {NOT_HEX, 0, 2 ^ ADDRESS_BITS}}

\* the innermost call is another function of the sow ABI, or of no ABI
OtherInnerCalls ==
    {<<sel>> \o Tail(SampleSowCall) :
        sel \in {SEL_functionPaused, SEL_getLastExecutedSeason, SEL_getPintosLeftToSow,
                 SEL_owner, SEL_pauseFunction, SEL_renounceOwnership, SEL_transferOwnership,
                 SEL_unpauseFunction, SEL_validateParamsAndReturnBeanstalkState,
                 SEL_validateParamsAndReturnBeanstalkStateArray, SEL_advancedFarm, 99}}
    \cup {<<SEL_validateParamsAndReturnBeanstalkState>> \o Tail(SampleSowCall) \o <<7, PUBLISHER_ADDRESS>>,
          <<SEL_validateParamsAndReturnBeanstalkStateArray, 1>> \o Tail(SampleSowCall)
             \o <<1, 7, 1, PUBLISHER_ADDRESS>>,
          <<SEL_owner>>, <<SEL_transferOwnership, WALLET_ADDRESS>>, <<>>}

OtherInnerPayloads == {PayloadWith(SOW_BLUEPRINT_V0_ADDRESS, c) : c \in OtherInnerCalls}

\* batches and pipes with no step or with more than one step
StepCountPayloads ==
    LET sowPipe == [target |-> SOW_BLUEPRINT_V0_ADDRESS, callData |-> SampleSowCall,
                    clipboard |-> <<0, 0>>]
        junkPipe == [target |-> OTHER_TARGET, callData |-> <<99>>, clipboard |-> <<>>]
        farmOf(pipes) == [callData |-> EncodeAdvancedPipe(pipes, 0), clipboard |-> <<>>]
        junkFarm == [callData |-> <<99>>, clipboard |-> <<>>]
    IN  {EncodeAdvancedFarm(<<>>),
         EncodeAdvancedFarm(<<farmOf(<<>>)>>),
         EncodeAdvancedFarm(<<farmOf(<<sowPipe, junkPipe>>)>>),
         EncodeAdvancedFarm(<<farmOf(<<junkPipe, sowPipe>>)>>),
         EncodeAdvancedFarm(<<farmOf(<<sowPipe>>), junkFarm>>),
         EncodeAdvancedFarm(<<junkFarm, farmOf(<<sowPipe>>)>>),
         EncodeAdvancedPipe(<<sowPipe>>, 0),
         SampleSowCall}

GarbageWords == {NOT_HEX, 0, SEL_advancedFarm, 99}

RECURSIVE SeqsUpTo(_, _)
SeqsUpTo(S, n) ==
    IF n = 0 THEN {<<>>}
    ELSE LET shorter == SeqsUpTo(S, n - 1) IN
         shorter \cup {Append(q, w) : q \in shorter, w \in S}

GarbagePayloads == SeqsUpTo(GarbageWords, MaxGarbageLen)

DecoderInputs ==
    {JsUndefined}
    \cup {JsString(w) : w \in EncoderPayloads \cup WrongTargetPayloads \cup TruncatedPayloads
                              \cup CorruptedPayloads \cup OtherInnerPayloads
                              \cup StepCountPayloads \cup GarbagePayloads}

----------------------------------------------------------------------------
(* Configuration (index.ts lines 15-20) *)

Str_preview == <<"p", "r", "e", "v", "i", "e", "w">>

Str_execute == <<"e", "x", "e", "c", "u", "t", "e">>

EnvUnset == [set |-> FALSE, val |-> <<>>]

EnvValue(s) == [set |-> TRUE, val |-> s]

\* the values of process.env.EXECUTION_MODE the model starts from
ModeValues ==
    {EnvUnset, EnvValue(<<>>),
     EnvValue(<<"P", "r", "e", "V", "I", "E", "W">>),
     EnvValue(Str_execute),
     EnvValue(<<"e", "x", "e", "c">>)}

\* const EXECUTION_MODE = process.env.EXECUTION_MODE || "preview"
EXECUTION_MODE(env) == IF env.set /\ env.val # <<>> THEN env.val ELSE Str_preview

\* lines 16-19: the settings the module reads besides EXECUTION_MODE
RequiredSettings == {"RPC_URL", "PRIVATE_KEY", "PROTOCOL_ADDRESS"}

SettingNames == RequiredSettings \cup {"CHECK_INTERVAL"}

\* the environments the model starts from: every required setting is unset, empty or
\* given, and CHECK_INTERVAL is unset
SettingValues ==
    {env \in [SettingNames -> {EnvUnset, EnvValue(<<>>), EnvValue(<<"x">>)}] :
        env["CHECK_INTERVAL"] = EnvUnset}

\* a validation that finds nothing missing
MissingSettingsIgnored(env) == {}

\* lines 23-36: the required settings whose value is falsy (undefined or "")
MissingSettings(env) == {name \in RequiredSettings : ~env[name].set \/ env[name].val = <<>>}

\* Number.parseInt of a string that starts with decimal digits: the number they spell
\* (the model draws no string without a leading digit, for which it is NaN)
RECURSIVE LeadingDigits(_)
LeadingDigits(str) ==
    IF str = <<>> \/ ~IsDigit(Head(str)) THEN <<>>
    ELSE <<Head(str)>> \o LeadingDigits(Tail(str))

parseInt(str) == DigitsToNat(LeadingDigits(str))

\* line 18: const CHECK_INTERVAL = Number.parseInt(process.env.CHECK_INTERVAL || "10000")
CheckIntervalOf(env) ==
    parseInt(IF env.set /\ env.val # <<>> THEN env.val ELSE <<"1", "0", "0", "0", "0">>)

\* the process before, and after, the module was loaded
Loading == [status |-> "loading", exitCode |-> 0]

Started == [status |-> "started", exitCode |-> 0]

\* process.exit(code)
Exited(code) == [status |-> "exited", exitCode |-> code]

\* the test of line 400 without its toLowerCase()
IsPreviewModeExact(env) == EXECUTION_MODE(env) = Str_preview

\* the test of line 400
IsPreviewMode(env) == toLowerCase(EXECUTION_MODE(env)) = Str_preview

----------------------------------------------------------------------------
(* Ledger *)

MaxPublish == 2

MaxCancel == 1

MaxSeconds == 2

MaxCycles == 1

MS_PER_SECOND == 1000

Blueprint(data, startTime, endTime) ==
    [publisher |-> PUBLISHER_ADDRESS, data |-> data, operatorPasteInstrs |-> <<>>,
     maxNonce |-> 1, startTime |-> startTime, endTime |-> endTime]

\* the blueprint hash: a collision-free function of the blueprint
BlueprintHash(bp) == <<bp.publisher, bp.data, bp.maxNonce, bp.startTime, bp.endTime>>

RequisitionOf(bp) == [blueprint |-> bp, blueprintHash |-> BlueprintHash(bp), signature |-> <<1>>]

\* payloads of the orders publishers put on the ledger
OpenPayload == EncodeSowPayload(SowStruct(<<0>>, <<>>, 100)).data

WhitelistedPayload ==
    EncodeSowPayload(SowStruct(<<0>>, <<OTHER_OPERATOR, WALLET_ADDRESS>>, 30)).data

ForeignPayload == EncodeSowPayload(SowStruct(<<0>>, <<OTHER_OPERATOR>>, 100)).data

UnknownPayload == <<99, 0>>

\* an order that offers no tip
ZeroTipPayload == EncodeSowPayload(SowStruct(<<0>>, <<>>, 0)).data

LedgerPayloads ==
    {OpenPayload, WhitelistedPayload, ForeignPayload, UnknownPayload, ZeroTipPayload}

\* the blueprints a publisher may publish
Catalogue == {Blueprint(d, 1, MaxSeconds) : d \in LedgerPayloads}

\* the values Date.now() may return: the first and the last second of the window of
\* the catalogue, the millisecond before the first and the millisecond after the last
ClockValues ==
    {MS_PER_SECOND - 1, MS_PER_SECOND, MaxSeconds * MS_PER_SECOND, MaxSeconds * MS_PER_SECOND + 1}

\* a publisher publishes a requisition
Publish(bp) ==
    /\ proc.status = "started"
    /\ pc = "timer"
    /\ cycle < MaxCycles
    /\ Len(publishEvents) < MaxPublish
    /\ publishEvents' = Append(publishEvents,
                               [args |-> RequisitionOf(bp),
                                blockNumber |-> Len(publishEvents) + Len(cancelEvents) + 1])
    /\ UNCHANGED <<cancelEvents, botVars, harnessVars>>

\* a publisher cancels a blueprint it published
Cancel(h) ==
    /\ pc \in {"timer", "fetchCancel"}
    /\ cycle < MaxCycles \/ pc = "fetchCancel"
    /\ Len(cancelEvents) < MaxCancel
    /\ cancelEvents' = Append(cancelEvents,
                              [blueprintHash |-> h,
                               blockNumber |-> Len(publishEvents) + Len(cancelEvents) + 1])
    /\ UNCHANGED <<publishEvents, botVars, harnessVars>>

----------------------------------------------------------------------------
(* loadPublishedRequisitions (tractor-utils.ts lines 931-1196) *)

Undefined == [set |-> FALSE, val |-> <<>>]

Given(v) == [set |-> TRUE, val |-> v]

\* a set of cancelled hashes made of the latest cancel event alone
CancelledHashesLatest(cancelEvts) ==
    IF cancelEvts = <<>> THEN {} ELSE {cancelEvts[Len(cancelEvts)].blueprintHash}

\* a set of cancelled hashes that is never filled
CancelledHashesNone(cancelEvts) == {}

\* lines 875-884: the set of the cancelled blueprint hashes (topics[1] of each event)
CancelledHashes(cancelEvts) == {cancelEvts[i].blueprintHash : i \in DOMAIN cancelEvts}

\* the topic of the PublishRequisition event, and another topic
TOPIC_PublishRequisition == 1

TOPIC_Other == 2

\* a JavaScript object is a record of the properties it has
NoValue == [undefined |-> TRUE]

IsUndefined(v) == "undefined" \in DOMAIN v

Has(obj, property) == property \in DOMAIN obj

\* lines 983-1025: contract.interface.parseLog on the topics and the data of a raw log,
\* then args[0]: undefined when no event of the ABI has the topic (parseLog gives null)
\* or when the data do not decode (parseLog throws, caught at line 1023)
ParsedArgs(event) ==
    IF event.topics[1] # TOPIC_PublishRequisition THEN NoValue
    ELSE IF ~event.data.decodes THEN NoValue
    ELSE event.data.requisition

\* lines 957-1026: the requisition data of a publish event: args[0] of an EventLog, or
\* what parsing the raw log gives
RequisitionDataOf(event) == IF Has(event, "args") THEN event.args ELSE ParsedArgs(event)

\* the map callback returns null: the event is dropped by the filter of line 1171
DropEvent == Null

\* a loader whose type filter lets every type through
TypeMatchesAlways(requisitionType, eventRequisitionType) == TRUE

\* lines 1113-1125: no type filter, or the type of the event is in the filter
TypeMatches(requisitionType, eventRequisitionType) ==
    requisitionType.set =>
        \E i \in DOMAIN requisitionType.val : requisitionType.val[i] = eventRequisitionType

\* lines 1067-1164: the conversion of requisition data that have a blueprint, a
\* blueprintHash and a signature
ConvertRequisition(requisition, decodedData, blockNumber, address, cancelledHashes, requisitionType) ==
    IF address.set
       /\ toLowerCase(getAddress(requisition.blueprint.publisher)) # toLowerCase(address.val)
    THEN DropEvent
    ELSE IF ~TypeMatches(requisitionType,
                         IF decodedData # Null THEN "sowBlueprintv0" ELSE "unknown")
    THEN DropEvent
    ELSE [kind |-> "requisitionEvent",
          requisition |-> requisition,
          blockNumber |-> blockNumber,
          isCancelled |-> requisition.blueprintHash \in cancelledHashes,
          requisitionType |-> IF decodedData # Null THEN "sowBlueprintv0" ELSE "unknown",
          decodedData |-> decodedData]

\* lines 1027-1170: the requisition data are absent (line 1027); reading a property of
\* a missing blueprint throws, caught at line 1166; a missing or empty blueprintHash or
\* signature is refused at line 1083.
\* The timestamp estimate of lines 1131-1152 is written to a field nothing reads.
LoadRequisitionData(requisitionData, blockNumber, address, cancelledHashes, requisitionType) ==
    IF IsUndefined(requisitionData) THEN DropEvent
    ELSE IF ~Has(requisitionData, "blueprint") THEN DropEvent
    ELSE IF ~Has(requisitionData, "blueprintHash") \/ ~Has(requisitionData, "signature")
    THEN DropEvent
    ELSE IF requisitionData.blueprintHash = <<>> \/ requisitionData.signature = <<>>
    THEN DropEvent
    ELSE ConvertRequisition(
            [blueprint |-> requisitionData.blueprint,
             blueprintHash |-> requisitionData.blueprintHash,
             signature |-> requisitionData.signature],
            decodeSowTractorData(JsString(requisitionData.blueprint.data)).value,
            blockNumber, address, cancelledHashes, requisitionType)

\* lines 951-1170: the map callback on one publish event; Null when the event is dropped.
\* address: the publisher filter; requisitionType: the type filter (a sequence of types).
LoadEvent(event, address, cancelledHashes, requisitionType) ==
    LoadRequisitionData(RequisitionDataOf(event), event.blockNumber, address,
                        cancelledHashes, requisitionType)

\* a loader that stops at the first event it cannot convert
RECURSIVE loadUntilMalformed(_, _, _, _)
loadUntilMalformed(address, events, cancelledHashes, requisitionType) ==
    IF events = <<>> THEN <<>>
    ELSE IF \/ IsUndefined(RequisitionDataOf(Head(events)))
            \/ ~Has(RequisitionDataOf(Head(events)), "blueprint")
            \/ ~Has(RequisitionDataOf(Head(events)), "blueprintHash")
            \/ ~Has(RequisitionDataOf(Head(events)), "signature")
    THEN <<>>
    ELSE IF LoadEvent(Head(events), address, cancelledHashes, requisitionType) = Null
    THEN loadUntilMalformed(address, Tail(events), cancelledHashes, requisitionType)
    ELSE <<LoadEvent(Head(events), address, cancelledHashes, requisitionType)>>
            \o loadUntilMalformed(address, Tail(events), cancelledHashes, requisitionType)

\* lines 950-1171 and 1191: map every event, keep the ones that are not null
loadPublishedRequisitions(address, events, cancelledHashes, requisitionType) ==
    LET mapped == [i \in DOMAIN events |->
                     LoadEvent(events[i], address, cancelledHashes, requisitionType)]
        NotNull(e) == e # Null
    IN  SelectSeq(mapped, NotNull)

----------------------------------------------------------------------------
(* checkForExecutableRequisitions (index.ts lines 56-357) *)

Undef == [kind |-> "undefined", v |-> 0]

NaN == [kind |-> "NaN", v |-> 0]

Num(x) == [kind |-> "number", v |-> x]

\* JavaScript truthiness of an optional number
Truthy(n) == n.kind = "number" /\ n.v # 0

\* the loader called without a type filter
LoadForCycleAllTypes(events, cancelEvts) ==
    loadPublishedRequisitions(Undefined, events, CancelledHashes(cancelEvts), Undefined)

\* the loader with the cancel events as they were one event earlier
LoadForCycleEarlierCancels(events, cancelEvts) ==
    loadPublishedRequisitions(Undefined, events,
                              CancelledHashes(SubSeq(cancelEvts, 1, Len(cancelEvts) - 1)),
                              Given(<<"sowBlueprintv0">>))

\* lines 91-101: the loader as the bot calls it: no publisher filter, one type
LoadForCycle(events, cancelEvts) ==
    loadPublishedRequisitions(Undefined, events, CancelledHashes(cancelEvts),
                              Given(<<"sowBlueprintv0">>))

\* the filter callback without the test of isCancelled
IsActiveDespiteCancel(req, now) ==
    IF req.requisition.blueprint.endTime * MS_PER_SECOND < now THEN FALSE
    ELSE IF req.requisition.blueprint.startTime * MS_PER_SECOND > now THEN FALSE
    ELSE TRUE

\* the filter callback with ">=" in the test of the start time
IsActiveStartExclusive(req, now) ==
    IF req.isCancelled THEN FALSE
    ELSE IF req.requisition.blueprint.endTime * MS_PER_SECOND < now THEN FALSE
    ELSE IF req.requisition.blueprint.startTime * MS_PER_SECOND >= now THEN FALSE
    ELSE TRUE

\* the filter callback with "<=" in the test of the end time
IsActiveEndExclusive(req, now) ==
    IF req.isCancelled THEN FALSE
    ELSE IF req.requisition.blueprint.endTime * MS_PER_SECOND <= now THEN FALSE
    ELSE IF req.requisition.blueprint.startTime * MS_PER_SECOND > now THEN FALSE
    ELSE TRUE

\* lines 106-132: the filter callback, with the value Date.now() returned
IsActive(req, now) ==
    IF req.isCancelled THEN FALSE
    ELSE IF req.requisition.blueprint.endTime * MS_PER_SECOND < now THEN FALSE
    ELSE IF req.requisition.blueprint.startTime * MS_PER_SECOND > now THEN FALSE
    ELSE TRUE

\* requisitions.filter(...): reads[i] is the clock read for requisitions[i]
RECURSIVE FilterActive(_, _)
FilterActive(reqs, reads) ==
    IF reqs = <<>> THEN <<>>
    ELSE (IF IsActive(Head(reqs), Head(reads)) THEN <<Head(reqs)>> ELSE <<>>)
         \o FilterActive(Tail(reqs), Tail(reads))

\* the clock reads a filter pass may see: Date.now() is read once for every requisition
\* that is not cancelled, and never goes back
ClockReads(reqs, last) ==
    {r \in [DOMAIN reqs -> ClockValues \cup {last}] :
        \A i \in DOMAIN reqs :
            LET prev == IF i = 1 THEN last ELSE r[i - 1] IN
            IF reqs[i].isCancelled THEN r[i] = prev ELSE r[i] >= prev}

\* what the ledger answers to the calls made for one candidate
SimOutcomes == {"revert", "gasThrow", "feeThrow", "noGasPrice", "priced"}

GasEstimates == {20}

GasPrices == {2}

\* an exchange rate; 0 is what the code keeps when the lookup fails
Prices == {0, 1}

\* lines 168-268: the simulation of one active requisition. In the model's units the
\* scale factors of lines 210-225 (1e9, 1e18, 1e6) are 1.
Simulate(req, outcome, gasEstimate, gasPrice, ethUsdPrice, pintoUsdPrice) ==
    LET operatorTip ==
            IF req.decodedData # Null
            THEN (IF req.decodedData.operatorParams.operatorTipAmount # 0
                  THEN Num(req.decodedData.operatorParams.operatorTipAmount)
                  ELSE Undef)
            ELSE Undef
        result == [requisition |-> req, success |-> FALSE, error |-> "null",
                   gasEstimate |-> Undef, gasCostEth |-> Undef, gasCostUsd |-> Undef,
                   operatorTip |-> operatorTip, operatorTipUsd |-> Undef,
                   estimatedProfitUsd |-> Undef]
        gasCostEth == Num(gasEstimate * gasPrice)
        gasCostUsd == Num(gasCostEth.v * ethUsdPrice)
        tipUsd == IF operatorTip.kind = "number" THEN Num(operatorTip.v * pintoUsdPrice) ELSE NaN
        profitUsd == IF tipUsd.kind = "number" THEN Num(tipUsd.v - gasCostUsd.v) ELSE NaN
    IN  CASE outcome = "revert" -> [result EXCEPT !.error = "execution reverted"]
          [] outcome = "gasThrow" -> [result EXCEPT !.success = TRUE]
          [] outcome \in {"feeThrow", "noGasPrice"} ->
               [result EXCEPT !.success = TRUE, !.gasEstimate = Num(gasEstimate)]
          [] OTHER ->
               IF ~(Truthy(gasCostEth) /\ ethUsdPrice > 0)
               THEN [result EXCEPT !.success = TRUE, !.gasEstimate = Num(gasEstimate),
                                   !.gasCostEth = gasCostEth]
               ELSE IF ~(pintoUsdPrice > 0)
               THEN [result EXCEPT !.success = TRUE, !.gasEstimate = Num(gasEstimate),
                                   !.gasCostEth = gasCostEth, !.gasCostUsd = gasCostUsd]
               ELSE [result EXCEPT !.success = TRUE, !.gasEstimate = Num(gasEstimate),
                                   !.gasCostEth = gasCostEth, !.gasCostUsd = gasCostUsd,
                                   !.operatorTipUsd = tipUsd,
                                   !.estimatedProfitUsd =
                                      IF Truthy(gasCostUsd) THEN profitUsd ELSE Undef]

\* a batch in which the failed dry-run of one requisition fails every result
SimulateAllShared(reqs, outcomes, gasEstimate, gasPrice, ethUsdPrice, pintoUsdPrice) ==
    [i \in DOMAIN reqs |->
        Simulate(reqs[i],
                 IF \E j \in DOMAIN reqs : outcomes[j] = "revert" THEN "revert" ELSE outcomes[i],
                 gasEstimate, gasPrice, ethUsdPrice, pintoUsdPrice)]

\* lines 167-269: Promise.all over activeRequisitions.map: the result at index i is the
\* one of the callback on the requisition at index i; no callback rejects
SimulateAll(reqs, outcomes, gasEstimate, gasPrice, ethUsdPrice, pintoUsdPrice) ==
    [i \in DOMAIN reqs |->
        Simulate(reqs[i], outcomes[i], gasEstimate, gasPrice, ethUsdPrice, pintoUsdPrice)]

\* lines 71-89: the two price lookups of a check; a lookup that throws leaves the price 0
PriceCalls(ethUsdPrice, pintoUsdPrice) ==
    <<[op |-> "getEthUsdPrice", hash |-> <<>>, ok |-> ethUsdPrice > 0, phase |-> "prices",
       inv |-> 0],
      [op |-> "getPintoUsdPrice", hash |-> <<>>, ok |-> pintoUsdPrice > 0, phase |-> "prices",
       inv |-> 0]>>

\* the ledger calls the simulation of activeRequisitions[index] makes, in order
SimulationCalls(req, outcome, index) ==
    LET h == req.requisition.blueprintHash
        call(op, ok) == [op |-> op, hash |-> h, ok |-> ok, phase |-> "evaluate", inv |-> index]
    IN  CASE outcome = "revert" -> <<call("staticCall", FALSE)>>
          [] outcome = "gasThrow" -> <<call("staticCall", TRUE), call("estimateGas", FALSE)>>
          [] outcome = "feeThrow" ->
               <<call("staticCall", TRUE), call("estimateGas", TRUE), call("getFeeData", FALSE)>>
          [] OTHER ->
               <<call("staticCall", TRUE), call("estimateGas", TRUE), call("getFeeData", TRUE)>>

\* line 278
operatorAddress == toLowerCase(getAddress(WALLET_ADDRESS))

\* the whitelist test without the toLowerCase() of the listed address
CanExecuteCaseSensitive(result) ==
    LET req == result.requisition IN
    IF req.decodedData = Null THEN FALSE
    ELSE LET whitelistedOperators == req.decodedData.operatorParams.whitelistedOperators IN
         IF Len(whitelistedOperators) = 0 THEN TRUE
         ELSE \E i \in DOMAIN whitelistedOperators : whitelistedOperators[i] = operatorAddress

\* lines 281-307: whether the operator may execute the requisition of a result
CanExecute(result) ==
    LET req == result.requisition IN
    IF req.decodedData = Null THEN FALSE
    ELSE LET whitelistedOperators == req.decodedData.operatorParams.whitelistedOperators IN
         IF Len(whitelistedOperators) = 0 THEN TRUE
         ELSE \E i \in DOMAIN whitelistedOperators :
                 toLowerCase(whitelistedOperators[i]) = operatorAddress

\* the whitelist filter applied to every simulation, failed dry-runs included
ExecutableForUsUnfiltered(results) ==
    LET Allowed(r) == CanExecute(r)
    IN  SelectSeq(results, Allowed)

\* lines 272-312: the successful simulations the operator may execute
ExecutableForUs(results) ==
    LET Successful(r) == r.success
        Allowed(r) == CanExecute(r)
    IN  SelectSeq(SelectSeq(results, Successful), Allowed)

\* a comparator that orders two estimates and leaves every other pair as it is
CompareProfitBothOnly(a, b) ==
    IF a.estimatedProfitUsd.kind = "number" /\ b.estimatedProfitUsd.kind = "number"
    THEN b.estimatedProfitUsd.v - a.estimatedProfitUsd.v
    ELSE 0

\* lines 316-329: the comparator of the sort; a NaN result counts as 0
CompareProfit(a, b) ==
    IF a.estimatedProfitUsd.kind # "undefined" /\ b.estimatedProfitUsd.kind # "undefined"
    THEN (IF a.estimatedProfitUsd.kind = "number" /\ b.estimatedProfitUsd.kind = "number"
          THEN b.estimatedProfitUsd.v - a.estimatedProfitUsd.v
          ELSE 0)
    ELSE IF a.estimatedProfitUsd.kind # "undefined" THEN 0 - 1
    ELSE IF b.estimatedProfitUsd.kind # "undefined" THEN 1
    ELSE 0

\* insert e into a sorted list behind every element that does not compare greater
RECURSIVE InsertSorted(_, _)
InsertSorted(sorted, e) ==
    IF sorted = <<>> THEN <<e>>
    ELSE IF CompareProfit(sorted[Len(sorted)], e) > 0
    THEN Append(InsertSorted(SubSeq(sorted, 1, Len(sorted) - 1), e), sorted[Len(sorted)])
    ELSE Append(sorted, e)

\* a ranking that returns the candidates in the reverse of their input order
SortReversed(list) == [i \in 1..Len(list) |-> list[Len(list) + 1 - i]]

\* Array.prototype.sort with the comparator: a stable sort. With a NaN estimate the
\* comparator is not a consistent order; for the lists of up to two candidates of this
\* model the result is still determined (the comparator returns 0 and the order is kept).
RECURSIVE SortByProfit(_)
SortByProfit(list) ==
    IF list = <<>> THEN <<>>
    ELSE InsertSorted(SortByProfit(SubSeq(list, 1, Len(list) - 1)), list[Len(list)])

NothingExecutable == [canExecute |-> FALSE, requisition |-> Null, executableRequisitions |-> <<>>]

\* a selection that returns the requisition of the last candidate of the ranked list
SelectExecutableLast(results) ==
    LET sorted == SortByProfit(ExecutableForUs(results))
    IN  IF Len(sorted) = 0 THEN NothingExecutable
        ELSE [canExecute |-> TRUE,
              requisition |-> sorted[Len(sorted)].requisition,
              executableRequisitions |-> sorted]

\* lines 314-352: rank the candidates and build the return value
SelectExecutable(results) ==
    LET executableForUs == ExecutableForUs(results)
        sorted == IF Len(executableForUs) > 1 THEN SortByProfit(executableForUs)
                  ELSE executableForUs
    IN  IF Len(sorted) = 0 THEN NothingExecutable
        ELSE [canExecute |-> Len(sorted) > 0,
              requisition |-> sorted[1].requisition,
              executableRequisitions |-> sorted]

----------------------------------------------------------------------------
(* monitor (index.ts lines 424-484) and the steps of its cycle *)

NoCycleState ==
    /\ fetchedPublish = <<>>
    /\ fetchedCancel = <<>>
    /\ requisitions = <<>>
    /\ filterReads = <<>>
    /\ activeRequisitions = <<>>
    /\ simulationResults = <<>>
    /\ checkResult = NothingExecutable
    /\ execIdx = 1
    /\ execPc = "none"
    /\ callLog = <<>>

\* a monitor that keeps what a cycle computed
KeepCycleState ==
    UNCHANGED <<fetchedPublish, fetchedCancel, requisitions, filterReads, activeRequisitions,
                simulationResults, checkResult, execIdx, execPc, callLog>>

\* the locals of a cycle are dropped
ClearCycleState ==
    /\ fetchedPublish' = <<>>
    /\ fetchedCancel' = <<>>
    /\ requisitions' = <<>>
    /\ filterReads' = <<>>
    /\ activeRequisitions' = <<>>
    /\ simulationResults' = <<>>
    /\ checkResult' = NothingExecutable
    /\ execIdx' = 1
    /\ execPc' = "none"
    /\ callLog' = <<>>

\* the harnesses are not in use
DecoderIdle ==
    /\ decInput = JsUndefined
    /\ decOutput = Returned(Null)
    /\ decPc = "off"

CodecIdle ==
    /\ tvInput = [kind |-> "none", value |-> 0, text |-> <<>>, decimals |-> 0]
    /\ tvToken = TokenValue(<<>>, 0)
    /\ tvResult = [threw |-> FALSE, value |-> 0]
    /\ tvPc = "off"

ObserverIdle == failedBefore = {}

LoaderIdle ==
    /\ ldCall = [made |-> 0, address |-> Undefined, requisitionType |-> Undefined,
                 threw |-> FALSE]
    /\ ldPrev = <<>>

Init ==
    /\ envMode \in ModeValues
    /\ publishEvents = <<>>
    /\ cancelEvents = <<>>
    /\ clock = 0
    /\ settings \in SettingValues
    /\ proc = Loading
    /\ pc = "timer"
    /\ cycle = 0
    /\ timers = <<>>
    /\ running = 0
    /\ NoCycleState
    /\ DecoderIdle
    /\ CodecIdle
    /\ LoaderIdle
    /\ ObserverIdle

\* lines 65 and 865-870: a read of the ledger the check starts with (the latest block,
\* the two event queries) and whether it gave its result
FetchCall(op, ok) == [op |-> op, hash |-> <<>>, ok |-> ok, phase |-> "fetch", inv |-> 0]

\* a check that reports an executable order without having one
ReturnSomething ==
    /\ checkResult' = [NothingExecutable EXCEPT !.canExecute = TRUE]
    /\ pc' = "execLoop"

\* the check returns "nothing executable": an early return or the catch of line 353
ReturnNothing ==
    /\ checkResult' = NothingExecutable
    /\ pc' = "execLoop"

\* line 18: the interval the module computed from its environment, in milliseconds
CHECK_INTERVAL == CheckIntervalOf(settings["CHECK_INTERVAL"])

\* lines 12-40: the module is loaded: the settings are read and validated, and with
\* all of them present the provider and the wallet are made; lines 486-493 then call
\* monitor
Startup ==
    /\ proc = Loading
    /\ proc' = IF MissingSettings(settings) # {} THEN Exited(1) ELSE Started
    /\ UNCHANGED <<ledgerVars, settings, envMode, clock, pc, cycle, checkVars, execIdx,
                   execPc, callLog, schedVars, harnessVars>>

\* a timer registration: the callback and its delay, counted from the call of setTimeout
setTimeout(callback, delay) == [callback |-> callback, delay |-> delay]

\* a monitor that never calls setTimeout
ArmsTimerNever(step) == FALSE

\* a monitor that arms the timer when it is entered
ArmsTimerAtStart(step) == step = "start"

\* line 483: monitor calls setTimeout as its last statement, behind the try block
ArmsTimer(step) == step = "end"

\* monitor is entered (at start-up or from the timer) and the check reads the latest
\* block (lines 65-69); blockOk is whether provider.getBlock gave a block
MonitorStart(blockOk) ==
    /\ proc = Started
    /\ IF cycle = 0 THEN running = 0 ELSE timers # <<>>
    /\ cycle' = IF cycle < MaxCycles THEN cycle + 1 ELSE cycle
    /\ running' = running + 1
    /\ timers' = (IF cycle = 0 THEN timers ELSE Tail(timers))
                    \o (IF ArmsTimer("start") THEN <<setTimeout("monitor", CHECK_INTERVAL)>>
                        ELSE <<>>)
    /\ IF blockOk
       THEN pc' = "fetchPublish" /\ UNCHANGED checkResult
       ELSE ReturnNothing
    /\ callLog' = Append(callLog, FetchCall("getBlock", blockOk))
    /\ UNCHANGED <<ledgerVars, procVars, envMode, clock, fetchedPublish, fetchedCancel, requisitions,
                   filterReads, activeRequisitions, simulationResults, execIdx, execPc,
                   harnessVars>>

\* fetchTractorEvents, first query (tractor-utils.ts lines 865-866)
FetchPublish(ok) ==
    /\ pc = "fetchPublish"
    /\ IF ok
       THEN /\ fetchedPublish' = publishEvents
            /\ pc' = "fetchCancel"
            /\ UNCHANGED checkResult
       ELSE ReturnNothing /\ UNCHANGED fetchedPublish
    /\ callLog' = Append(callLog, FetchCall("queryFilter(PublishRequisition)", ok))
    /\ UNCHANGED <<ledgerVars, procVars, envMode, clock, cycle, fetchedCancel, requisitions,
                   filterReads, activeRequisitions, simulationResults, execIdx, execPc,
                   harnessVars, schedVars>>

\* fetchTractorEvents, second query (lines 869-886), the rest of the loader, and the
\* time filter of the check (index.ts lines 103-138)
FetchCancelAndFilter(ok) ==
    /\ pc = "fetchCancel"
    /\ IF ok
       THEN LET loaded == LoadForCycle(fetchedPublish, cancelEvents) IN
            \E reads \in ClockReads(loaded, clock) :
                LET active == FilterActive(loaded, reads) IN
                /\ fetchedCancel' = cancelEvents
                /\ requisitions' = loaded
                /\ filterReads' = reads
                /\ activeRequisitions' = active
                /\ clock' = IF Len(reads) = 0 THEN clock ELSE reads[Len(reads)]
                /\ IF Len(active) = 0
                   THEN ReturnNothing
                   ELSE pc' = "simulate" /\ UNCHANGED checkResult
       ELSE /\ ReturnNothing
            /\ UNCHANGED <<fetchedCancel, requisitions, filterReads, activeRequisitions, clock>>
    /\ callLog' = Append(callLog, FetchCall("queryFilter(CancelBlueprint)", ok))
    /\ UNCHANGED <<ledgerVars, procVars, envMode, cycle, fetchedPublish, simulationResults, execIdx,
                   execPc, harnessVars, schedVars>>

RECURSIVE Flatten(_)
Flatten(seqs) == IF seqs = <<>> THEN <<>> ELSE Head(seqs) \o Flatten(Tail(seqs))

\* lines 165-352: the simulations (Promise.all), the whitelist filter, the ranking; the
\* prices looked up at lines 71-89 are first used here
RunSimulations(ethUsdPrice, pintoUsdPrice) ==
    /\ pc = "simulate"
    /\ \E outcomes \in [DOMAIN activeRequisitions -> SimOutcomes],
          gasEstimate \in GasEstimates, gasPrice \in GasPrices :
          LET results == SimulateAll(activeRequisitions, outcomes, gasEstimate, gasPrice,
                                     ethUsdPrice, pintoUsdPrice)
          IN  /\ simulationResults' = results
              /\ callLog' = callLog \o PriceCalls(ethUsdPrice, pintoUsdPrice)
                                  \o Flatten([i \in DOMAIN activeRequisitions |->
                                        SimulationCalls(activeRequisitions[i], outcomes[i], i)])
              /\ checkResult' = SelectExecutable(results)
    /\ filterReads' = <<>>
    /\ pc' = "execLoop"
    /\ UNCHANGED <<ledgerVars, procVars, envMode, clock, cycle, fetchedPublish, fetchedCancel,
                   requisitions, activeRequisitions, execIdx, execPc, harnessVars, schedVars>>

----------------------------------------------------------------------------
(* executeAction (index.ts lines 360-421), called by the loop of monitor *)

ExecCall(op, ok) ==
    [op |-> op,
     hash |-> checkResult.executableRequisitions[execIdx].requisition.requisition.blueprintHash,
     ok |-> ok, phase |-> "execute", inv |-> execIdx]

\* lines 472 and 360-421: executeAction is entered for, or has returned to the loop
\* from, the candidate at the rank of the loop
ExecEvent(op) ==
    [op |-> op,
     hash |-> checkResult.executableRequisitions[execIdx].requisition.requisition.blueprintHash,
     ok |-> TRUE, phase |-> "loop", inv |-> execIdx]

\* a loop that does not wait for executeAction
LoopFireAndForget(at) == TRUE

\* line 472: the loop awaits executeAction, so it goes on (to the next candidate or to
\* its end) only when no call is running
LoopMayContinue(at) == at = "none"

\* a loop that is left when the first call of executeAction returns
ExecReturnLast ==
    /\ execPc' = "none"
    /\ execIdx' = Len(checkResult.executableRequisitions) + 1

\* executeAction returns (or its catch of line 418 ran): the loop moves on
ExecReturn ==
    /\ execPc' = "none"
    /\ execIdx' = execIdx + 1

\* an executeAction that lets the error out: the catch of monitor (line 476) ends the loop
ExecRethrown ==
    /\ execPc' = "none"
    /\ execIdx' = Len(checkResult.executableRequisitions) + 1

\* lines 418-420: the catch of executeAction logs the error of the submission or of the
\* confirmation and the call returns normally: the loop moves on
ExecCaught ==
    /\ execPc' = "none"
    /\ execIdx' = execIdx + 1

\* lines 431-473 and 381-384: the loop calls executeAction for the next candidate,
\* which issues the dry-run
ExecStart ==
    /\ pc = "execLoop"
    /\ LoopMayContinue(execPc)
    /\ checkResult.canExecute
    /\ execIdx <= Len(checkResult.executableRequisitions)
    /\ execPc' = "simulating"
    /\ callLog' = Append(callLog, ExecEvent("executeAction"))
    /\ UNCHANGED <<ledgerVars, procVars, envMode, clock, pc, cycle, checkVars, execIdx, harnessVars, schedVars>>

\* executeAction without the try around the dry-run: its outcome is not looked at
AfterDryRunUnchecked(ok, env) == IF IsPreviewMode(env) THEN "return" ELSE "submit"

\* lines 381-410: where executeAction goes once the dry-run is over: to the catch of
\* line 418 when it threw, to the return of line 405 in preview mode, else to the
\* submission of line 410
AfterDryRun(ok, env) ==
    IF ~ok THEN "catch"
    ELSE IF IsPreviewMode(env) THEN "return"
    ELSE "submit"

\* lines 384-410: the dry-run returns; on success the mode decides whether the
\* transaction is submitted
ExecSimulated(ok) ==
    /\ pc = "execLoop"
    /\ execPc = "simulating"
    /\ IF AfterDryRun(ok, envMode) = "submit"
       THEN /\ callLog' = callLog \o <<ExecCall("staticCall", ok), ExecCall("submit", TRUE)>>
            /\ execPc' = "submitting"
            /\ UNCHANGED execIdx
       ELSE /\ callLog' = callLog \o <<ExecCall("staticCall", ok), ExecEvent("return")>>
            /\ ExecReturn
    /\ UNCHANGED <<ledgerVars, procVars, envMode, clock, pc, cycle, checkVars, harnessVars, schedVars>>

\* lines 410-415: the submission returns a transaction (ok) or throws
ExecSubmitted(ok) ==
    /\ pc = "execLoop"
    /\ execPc = "submitting"
    /\ IF ok
       THEN /\ callLog' = Append(callLog, ExecCall("wait", TRUE))
            /\ execPc' = "waiting"
            /\ UNCHANGED execIdx
       ELSE /\ callLog' = callLog \o <<ExecCall("submitFailed", FALSE), ExecEvent("return")>>
            /\ ExecCaught
    /\ UNCHANGED <<ledgerVars, procVars, envMode, clock, pc, cycle, checkVars, harnessVars, schedVars>>

\* lines 415-420: the confirmation arrives (ok) or tx.wait throws
ExecConfirmed(ok) ==
    /\ pc = "execLoop"
    /\ execPc = "waiting"
    /\ callLog' = callLog \o <<ExecCall(IF ok THEN "confirmed" ELSE "waitFailed", ok),
                             ExecEvent("return")>>
    /\ IF ok THEN ExecReturn ELSE ExecCaught
    /\ UNCHANGED <<ledgerVars, procVars, envMode, clock, pc, cycle, checkVars, harnessVars, schedVars>>

\* lines 475-483: the loop is over (or nothing was executable); the timer is armed and
\* the locals of the cycle are gone
ScheduleStep ==
    /\ pc = "execLoop"
    /\ LoopMayContinue(execPc)
    /\ ~checkResult.canExecute \/ execIdx > Len(checkResult.executableRequisitions)
    /\ pc' = "timer"
    /\ ClearCycleState
    /\ running' = running - 1
    /\ timers' = timers \o (IF ArmsTimer("end") THEN <<setTimeout("monitor", CHECK_INTERVAL)>>
                            ELSE <<>>)
    /\ UNCHANGED <<ledgerVars, procVars, envMode, clock, cycle, decVars, codecVars, loadVars>>

Schedule == ScheduleStep /\ UNCHANGED obsVars

Next ==
    \/ Startup
    \/ \E bp \in Catalogue : Publish(bp)
    \/ \E i \in DOMAIN publishEvents : Cancel(publishEvents[i].args.blueprintHash)
    \/ \E blockOk \in BOOLEAN : MonitorStart(blockOk)
    \/ \E ok \in BOOLEAN : FetchPublish(ok)
    \/ \E ok \in BOOLEAN : FetchCancelAndFilter(ok)
    \/ \E ethUsdPrice \in Prices, pintoUsdPrice \in Prices :
          RunSimulations(ethUsdPrice, pintoUsdPrice)
    \/ ExecStart
    \/ \E ok \in BOOLEAN : ExecSimulated(ok)
    \/ \E ok \in BOOLEAN : ExecSubmitted(ok)
    \/ \E ok \in BOOLEAN : ExecConfirmed(ok)
    \/ Schedule

Spec == Init /\ [][Next]_vars

\* the steps of the process: the module load, the timer firing, and the return (or the
\* failure) of each call a cycle awaits
CycleStep ==
    \/ Startup
    \/ \E blockOk \in BOOLEAN : MonitorStart(blockOk)
    \/ \E ok \in BOOLEAN : FetchPublish(ok)
    \/ \E ok \in BOOLEAN : FetchCancelAndFilter(ok)
    \/ \E ethUsdPrice \in Prices, pintoUsdPrice \in Prices :
          RunSimulations(ethUsdPrice, pintoUsdPrice)
    \/ ExecStart
    \/ \E ok \in BOOLEAN : ExecSimulated(ok)
    \/ \E ok \in BOOLEAN : ExecSubmitted(ok)
    \/ \E ok \in BOOLEAN : ExecConfirmed(ok)

BotStep == CycleStep \/ Schedule

\* the bot under the assumption that every external call eventually returns or fails
\* and that an armed timer eventually fires; the publishers owe no step.
\* It starts in execute mode, the mode in which a cycle has all of its steps, and the
\* publishers publish the two orders of the catalogue the operator may execute.
LiveInit == Init /\ envMode = EnvValue(Str_execute)

LiveCatalogue == {Blueprint(d, 1, MaxSeconds) : d \in {OpenPayload, WhitelistedPayload}}

LiveNext ==
    \/ \E bp \in LiveCatalogue : Publish(bp)
    \/ \E i \in DOMAIN publishEvents : Cancel(publishEvents[i].args.blueprintHash)
    \/ BotStep

SpecLive == LiveInit /\ [][LiveNext]_vars /\ WF_vars(BotStep)

\* the hashes for which a dry-run, a submission or a confirmation failed in the cycle
FailedInCycle ==
    {callLog[k].hash : k \in {n \in DOMAIN callLog :
                                /\ ~callLog[n].ok
                                /\ callLog[n].op \in {"staticCall", "submitFailed", "waitFailed"}}}

\* the end of a cycle, with the failures of the cycle noted by the observer
ScheduleObserved ==
    /\ ScheduleStep
    /\ failedBefore' = failedBefore \cup FailedInCycle

\* the wall clock goes on while executeAction awaits the ledger (the dry-run, the
\* submission, the confirmation of lines 384, 410 and 415)
ClockAdvance(now) ==
    /\ pc = "execLoop"
    /\ execPc # "none"
    /\ now > clock
    /\ clock' = now
    /\ UNCHANGED <<ledgerVars, procVars, envMode, pc, cycle, checkVars, execIdx, execPc,
                   callLog, schedVars, harnessVars>>

\* the bot in execute mode over several cycles, the failures of the earlier cycles noted
CyclesNext ==
    \/ \E now \in ClockValues : ClockAdvance(now)
    \/ \E bp \in LiveCatalogue : Publish(bp)
    \/ \E i \in DOMAIN publishEvents : Cancel(publishEvents[i].args.blueprintHash)
    \/ CycleStep
    \/ ScheduleObserved

SpecCycles == LiveInit /\ [][CyclesNext]_vars

----------------------------------------------------------------------------
(* Decoder harness: one call of decodeSowTractorData on an arbitrary input *)

\* the bot has not started
BotIdle ==
    /\ envMode = EnvUnset
    /\ settings = [name \in SettingNames |-> EnvUnset]
    /\ proc = Loading
    /\ publishEvents = <<>>
    /\ cancelEvents = <<>>
    /\ clock = 0
    /\ pc = "timer"
    /\ cycle = 0
    /\ timers = <<>>
    /\ running = 0
    /\ NoCycleState

DecodeInit ==
    /\ decInput \in DecoderInputs
    /\ decOutput = Returned(Null)
    /\ decPc = "ready"
    /\ BotIdle
    /\ CodecIdle
    /\ LoaderIdle
    /\ ObserverIdle

DecodeCall ==
    /\ decPc = "ready"
    /\ decOutput' = decodeSowTractorData(decInput)
    /\ decPc' = "done"
    /\ UNCHANGED <<decInput, ledgerVars, botVars, codecVars, loadVars, obsVars>>

DecodeNext == DecodeCall

SpecDecode == DecodeInit /\ [][DecodeNext]_vars

----------------------------------------------------------------------------
(* Value codec harness: a TokenValue is built and converted with toBigInt() *)

MaxCodecValue == 25

\* the precisions: 6 and 18 are the ones the decoder uses, 18 is the default
CodecDecimals == {0, 1, 2, 6, 18}

\* decimal strings handed to the constructor
CodecStrings ==
    {<<"7">>, <<"1", ".", "5">>, <<"0", ".", "0", "0", "0", "0", "0", "5">>,
     <<"-", "1">>, <<"-", "1", ".", "5">>, <<"-", "0", ".", "5">>,
     <<"1", ".", "2", ".", "3">>, <<"1", ".", ".", "2">>,
     <<"1", ".", "2", "3", "4", "5", "6", "7", "8">>,
     <<>>, <<"-">>, <<".">>, <<"1", ".">>, <<".", "5">>, <<"1", "-", "2">>, <<"a">>}

CodecInputs ==
    {[kind |-> "bigint", value |-> v, text |-> <<>>, decimals |-> d] :
        v \in (0 - MaxCodecValue)..MaxCodecValue, d \in CodecDecimals}
    \cup {[kind |-> "string", value |-> 0, text |-> str, decimals |-> d] :
             str \in CodecStrings, d \in CodecDecimals \ {18}}

CodecInit ==
    /\ tvInput \in CodecInputs
    /\ tvToken = TokenValue(<<>>, 0)
    /\ tvResult = [threw |-> FALSE, value |-> 0]
    /\ tvPc = "ready"
    /\ BotIdle
    /\ DecoderIdle
    /\ LoaderIdle
    /\ ObserverIdle

\* TokenValue.fromBlockchain(value, decimals)
TvFromBlockchain ==
    /\ tvPc = "ready"
    /\ tvInput.kind = "bigint"
    /\ tvToken' = fromBlockchain(tvInput.value, tvInput.decimals)
    /\ tvPc' = "built"
    /\ UNCHANGED <<tvInput, tvResult, ledgerVars, botVars, decVars, loadVars, obsVars>>

\* new TokenValue(value, decimals)
TvConstruct ==
    /\ tvPc = "ready"
    /\ tvInput.kind = "string"
    /\ tvToken' = TokenValue(tvInput.text, tvInput.decimals)
    /\ tvPc' = "built"
    /\ UNCHANGED <<tvInput, tvResult, ledgerVars, botVars, decVars, loadVars, obsVars>>

\* tokenValue.toBigInt()
TvToBigInt ==
    /\ tvPc = "built"
    /\ tvResult' = toBigInt(tvToken)
    /\ tvPc' = "done"
    /\ UNCHANGED <<tvInput, tvToken, ledgerVars, botVars, decVars, loadVars, obsVars>>

CodecNext == TvFromBlockchain \/ TvConstruct \/ TvToBigInt

SpecCodec == CodecInit /\ [][CodecNext]_vars

----------------------------------------------------------------------------
(* Properties of executeAction *)

\* the configured mode reads "preview" once lowercased, or is unset or empty
ConfiguredPreview ==
    \/ ~envMode.set
    \/ envMode.val = <<>>
    \/ toLowerCase(envMode.val) = Str_preview

\* the calls executeAction made in this cycle
ExecuteCalls == {i \in DOMAIN callLog : callLog[i].phase = "execute"}

\* C1: in preview mode (whatever the case of the letters, and when the variable is
\* unset or empty) no run of executeAction submits the tractor transaction or waits
\* for a confirmation, whatever the order and the outcome of the dry-run.
C1_PreviewNeverSubmits ==
    ConfiguredPreview =>
        /\ execPc \notin {"submitting", "waiting"}
        /\ \A i \in DOMAIN callLog :
              callLog[i].op \notin {"submit", "submitFailed", "wait", "waitFailed", "confirmed"}

\* C1, its case: the mode is spelled "PreVIEW", a dry-run succeeded and executeAction
\* has returned
C1_Witness ==
    /\ envMode.set
    /\ envMode.val # Str_preview
    /\ ConfiguredPreview
    /\ \E i \in ExecuteCalls :
          /\ callLog[i].op = "staticCall"
          /\ callLog[i].ok
          /\ execIdx > callLog[i].inv

\* C2: the transaction is submitted only when the configured mode is "execute": with
\* any other value of EXECUTION_MODE no run of executeAction reaches the submission.
C2_OnlyExecuteSubmits ==
    EXECUTION_MODE(envMode) # Str_execute =>
        /\ execPc \notin {"submitting", "waiting"}
        /\ \A i \in DOMAIN callLog : callLog[i].op # "submit"

\* C3: every submission comes directly after a successful dry-run of the same
\* requisition in the same invocation of executeAction, and an invocation whose dry-run
\* failed makes no further call.
C3_SubmitOnlyAfterDryRun ==
    /\ \A i \in DOMAIN callLog :
          callLog[i].op = "submit" =>
              /\ i > 1
              /\ callLog[i - 1] = [op |-> "staticCall", hash |-> callLog[i].hash, ok |-> TRUE,
                                   phase |-> "execute", inv |-> callLog[i].inv]
    /\ \A i \in ExecuteCalls :
          callLog[i].op = "staticCall" /\ ~callLog[i].ok =>
              /\ execIdx > callLog[i].inv
              /\ \A j \in ExecuteCalls : j > i => callLog[j].inv # callLog[i].inv

\* C3, its case: one invocation submitted after its dry-run, another one ended at a
\* failed dry-run
C3_Witness ==
    /\ \E i \in ExecuteCalls : callLog[i].op = "submit"
    /\ \E i \in ExecuteCalls : callLog[i].op = "staticCall" /\ ~callLog[i].ok

----------------------------------------------------------------------------
(* Properties of checkForExecutableRequisitions *)

\* membership of a loaded requisition in the stages of the check
Kept(req) == \E j \in DOMAIN activeRequisitions : activeRequisitions[j] = req

Simulated(req) == \E j \in DOMAIN simulationResults : simulationResults[j].requisition = req

Executable(req) ==
    \E j \in DOMAIN checkResult.executableRequisitions :
        checkResult.executableRequisitions[j].requisition = req

\* some call to the ledger (dry-run, gas estimate, submission) was made for the hash
Called(hash) == \E i \in DOMAIN callLog : callLog[i].hash = hash

StartMs(req) == req.requisition.blueprint.startTime * MS_PER_SECOND

EndMs(req) == req.requisition.blueprint.endTime * MS_PER_SECOND

\* the filter has run and the clock reads it made are known
FilterDone == requisitions # <<>> /\ DOMAIN filterReads = DOMAIN requisitions

\* C4: a requisition loaded with isCancelled = true is never active, never simulated,
\* never in the executable set and never handed to executeAction, whatever the time.
C4_CancelledExcluded ==
    \A i \in DOMAIN requisitions :
        requisitions[i].isCancelled =>
            /\ ~Kept(requisitions[i])
            /\ ~Simulated(requisitions[i])
            /\ ~Executable(requisitions[i])
            /\ ~Called(requisitions[i].requisition.blueprintHash)

\* C4, its case: a cancelled requisition was loaded while its time window was open,
\* and the check found another requisition executable
C4_Witness ==
    /\ pc = "execLoop"
    /\ checkResult.canExecute
    /\ \E i \in DOMAIN requisitions :
          /\ requisitions[i].isCancelled
          /\ StartMs(requisitions[i]) <= clock
          /\ clock <= EndMs(requisitions[i])

\* C5: the filter keeps a requisition that is not cancelled exactly when
\* startTime*1000 <= now <= endTime*1000, now being the clock read made for it.
C5_ActiveWindow ==
    FilterDone =>
        \A i \in DOMAIN requisitions :
            ~requisitions[i].isCancelled =>
                (Kept(requisitions[i])
                     <=> /\ StartMs(requisitions[i]) <= filterReads[i]
                         /\ filterReads[i] <= EndMs(requisitions[i]))

\* C5, its case: a requisition read the clock at exactly startTime*1000 and is active
C5_Witness ==
    /\ FilterDone
    /\ \E i \in DOMAIN requisitions :
          /\ ~requisitions[i].isCancelled
          /\ filterReads[i] = StartMs(requisitions[i])
          /\ Kept(requisitions[i])

\* C6 as stated: at now == endTime*1000 a requisition that is not cancelled is expired
\* and excluded from the active set (the upper bound is exclusive).
C6_EndExclusive ==
    FilterDone =>
        \A i \in DOMAIN requisitions :
            ~requisitions[i].isCancelled /\ filterReads[i] = EndMs(requisitions[i])
                => ~Kept(requisitions[i])

\* C6, amended: at now == endTime*1000 a requisition that is not cancelled and has
\* started is still active; it is expired only once endTime*1000 < now (the upper bound
\* is inclusive).
C6_EndInclusive ==
    FilterDone =>
        \A i \in DOMAIN requisitions :
            ~requisitions[i].isCancelled /\ StartMs(requisitions[i]) <= EndMs(requisitions[i]) =>
                /\ filterReads[i] = EndMs(requisitions[i]) => Kept(requisitions[i])
                /\ filterReads[i] > EndMs(requisitions[i]) => ~Kept(requisitions[i])

\* C6, its case: a requisition read the clock at exactly endTime*1000 and is active
C6_Witness ==
    /\ FilterDone
    /\ \E i \in DOMAIN requisitions :
          /\ ~requisitions[i].isCancelled
          /\ filterReads[i] = EndMs(requisitions[i])
          /\ Kept(requisitions[i])

\* the whitelist of a decoded requisition names the operator wallet, both lowercased
OperatorListed(req) ==
    \E j \in DOMAIN req.decodedData.operatorParams.whitelistedOperators :
        toLowerCase(req.decodedData.operatorParams.whitelistedOperators[j])
            = toLowerCase(getAddress(WALLET_ADDRESS))

Eligible(req) ==
    \/ Len(req.decodedData.operatorParams.whitelistedOperators) = 0
    \/ OperatorListed(req)

\* C7: a successfully simulated requisition with decoded parameters is in the
\* executable set iff its whitelist is empty or names the operator wallet (compared
\* in lowercase); executeAction is called only for such requisitions.
C7_WhitelistEligibility ==
    /\ \A i \in DOMAIN simulationResults :
          simulationResults[i].success /\ simulationResults[i].requisition.decodedData # Null =>
              (Executable(simulationResults[i].requisition)
                   <=> Eligible(simulationResults[i].requisition))
    /\ \A i \in ExecuteCalls :
          \E j \in DOMAIN simulationResults :
              /\ simulationResults[j].requisition.requisition.blueprintHash = callLog[i].hash
              /\ simulationResults[j].requisition.decodedData # Null
              /\ Eligible(simulationResults[j].requisition)

\* C7, its case: of two successful simulations, the one whose whitelist names the
\* operator (in another case of letters) was executed, the one whose whitelist names
\* only somebody else is not in the executable set
C7_Witness ==
    /\ \E i \in DOMAIN simulationResults :
          /\ simulationResults[i].success
          /\ Len(simulationResults[i].requisition.decodedData.operatorParams.whitelistedOperators) > 0
          /\ OperatorListed(simulationResults[i].requisition)
          /\ Executable(simulationResults[i].requisition)
          /\ \E k \in ExecuteCalls :
                callLog[k].hash = simulationResults[i].requisition.requisition.blueprintHash
    /\ \E i \in DOMAIN simulationResults :
          /\ simulationResults[i].success
          /\ ~Eligible(simulationResults[i].requisition)
          /\ ~Executable(simulationResults[i].requisition)

\* the published events of this cycle whose payload does not decode
UndecodedEvents ==
    {j \in DOMAIN fetchedPublish :
        decodeSowTractorData(JsString(fetchedPublish[j].args.blueprint.data)).value = Null}

\* C8: a requisition whose payload did not decode is dropped by the loader the check
\* calls, so it is never in the executable set and never handed to executeAction,
\* whatever its cancellation status, time window and simulation outcome.
C8_UndecodedNeverExecutable ==
    /\ \A i \in DOMAIN requisitions : requisitions[i].decodedData # Null
    /\ \A i \in DOMAIN simulationResults : simulationResults[i].requisition.decodedData # Null
    /\ \A i \in DOMAIN checkResult.executableRequisitions :
          checkResult.executableRequisitions[i].requisition.decodedData # Null
    /\ \A j \in UndecodedEvents : ~Called(fetchedPublish[j].args.blueprintHash)

\* C8, its case: an undecodable payload was published and not cancelled, its time
\* window was open, and executeAction ran for another requisition
C8_Witness ==
    /\ pc = "execLoop"
    /\ ExecuteCalls # {}
    /\ \E j \in UndecodedEvents :
          /\ fetchedPublish[j].args.blueprintHash \notin CancelledHashes(fetchedCancel)
          /\ fetchedPublish[j].args.blueprint.startTime * MS_PER_SECOND <= clock
          /\ clock <= fetchedPublish[j].args.blueprint.endTime * MS_PER_SECOND

----------------------------------------------------------------------------
(* Properties of decodeSowTractorData *)

\* the call ended and its input was a string
DecodedString == decPc = "done" /\ decInput.isString

\* C9: a payload that parses as advancedFarm -> advancedPipe -> sowBlueprintv0 call but
\* whose pipe step targets another address than SOW_BLUEPRINT_V0_ADDRESS decodes to
\* null, like a payload that does not parse.
C9_WrongTargetIsNull ==
    DecodedString /\ decInput.words \in WrongTargetPayloads => decOutput.value = Null

\* the order-specific call parses with the sow ABI
SowLayerParses(pipe) ==
    /\ pipe.status = "ok"
    /\ pipe.name = "advancedPipe"
    /\ Len(pipe.args[1]) > 0
    /\ parseTransaction("sowBlueprintv0ABI", pipe.args[1][1].callData).status = "ok"

\* the first step of the batch parses as advancedPipe, and so on
PipeLayerParses(farm) ==
    /\ farm.status = "ok"
    /\ farm.name = "advancedFarm"
    /\ Len(farm.args[1]) > 0
    /\ SowLayerParses(parseTransaction("beanstalkAbi", farm.args[1][1].callData))

\* the payload parses at all three layers
ThreeLayersParse(words) == PipeLayerParses(parseTransaction("beanstalkAbi", words))

\* the two outer layers parse and parsing the order-specific call throws
SowLayerThrows(pipe) ==
    /\ pipe.status = "ok"
    /\ pipe.name = "advancedPipe"
    /\ Len(pipe.args[1]) > 0
    /\ parseTransaction("sowBlueprintv0ABI", pipe.args[1][1].callData).status = "throw"

InnermostThrows(farm) ==
    /\ farm.status = "ok"
    /\ farm.name = "advancedFarm"
    /\ Len(farm.args[1]) > 0
    /\ SowLayerThrows(parseTransaction("beanstalkAbi", farm.args[1][1].callData))

\* C10: decodeSowTractorData never throws; a failure at any of the three layers gives
\* the return value null, and a result that is not null is returned only when all
\* three layers parsed.
C10_NeverThrows ==
    decPc = "done" =>
        /\ ~decOutput.threw
        /\ decOutput.value # Null => decInput.isString /\ ThreeLayersParse(decInput.words)

\* C10, its case: the two outer layers parsed, parsing the innermost call threw, and
\* the decoder returned null
C10_Witness ==
    /\ DecodedString
    /\ InnermostThrows(parseTransaction("beanstalkAbi", decInput.words))
    /\ decOutput = Returned(Null)

----------------------------------------------------------------------------
(* loadPublishedRequisitions called on its own, on ledgers that also hold publish
   events the loader cannot convert *)

MaxLoadEvents == 2

MaxLoadCancels == 2

MaxLoads == 2

\* an object without one of its properties
Without(obj, property) == [p \in DOMAIN obj \ {property} |-> obj[p]]

LoaderBlueprints == {Blueprint(d, 1, MaxSeconds) : d \in {OpenPayload, UnknownPayload}}

LoaderRequisition == RequisitionOf(Blueprint(OpenPayload, 1, MaxSeconds))

\* the publish events of the harness, as queryFilter returns them: an EventLog with its
\* args, or a raw Log with topics and data; well-formed ones, and ones whose
\* requisition data are absent, do not parse, or lack a property
LoaderEvents(blockNumber) ==
    {[args |-> RequisitionOf(bp), blockNumber |-> blockNumber] : bp \in LoaderBlueprints}
    \cup
    {[topics |-> <<TOPIC_PublishRequisition>>,
      data |-> [decodes |-> TRUE, requisition |-> LoaderRequisition],
      blockNumber |-> blockNumber],
     [topics |-> <<TOPIC_PublishRequisition>>,
      data |-> [decodes |-> FALSE, requisition |-> LoaderRequisition],
      blockNumber |-> blockNumber],
     [topics |-> <<TOPIC_Other>>,
      data |-> [decodes |-> TRUE, requisition |-> LoaderRequisition],
      blockNumber |-> blockNumber],
     [args |-> NoValue, blockNumber |-> blockNumber],
     [args |-> Without(LoaderRequisition, "blueprint"), blockNumber |-> blockNumber],
     [args |-> Without(LoaderRequisition, "blueprintHash"), blockNumber |-> blockNumber],
     [args |-> Without(LoaderRequisition, "signature"), blockNumber |-> blockNumber],
     [args |-> [LoaderRequisition EXCEPT !.signature = <<>>], blockNumber |-> blockNumber]}

\* the hashes a CancelBlueprint event of the harness carries
LoaderHashes == {BlueprintHash(bp) : bp \in LoaderBlueprints}

\* the publisher filter (index.ts line 93 passes none) and the type filters of the calls
LoaderAddresses == {Undefined}

LoaderTypes == {Undefined, Given(<<"sowBlueprintv0">>), Given(<<"unknown">>)}

LoadInit ==
    /\ BotIdle
    /\ DecoderIdle
    /\ CodecIdle
    /\ LoaderIdle
    /\ ObserverIdle

\* a PublishRequisition event is added to the log
LoadPublish(event) ==
    /\ Len(publishEvents) < MaxLoadEvents
    /\ publishEvents' = Append(publishEvents, event)
    /\ UNCHANGED <<cancelEvents, botVars, harnessVars>>

\* a CancelBlueprint event is added to the log
LoadCancel(h) ==
    /\ Len(cancelEvents) < MaxLoadCancels
    /\ cancelEvents' = Append(cancelEvents,
                              [blueprintHash |-> h,
                               blockNumber |-> Len(publishEvents) + Len(cancelEvents) + 1])
    /\ UNCHANGED <<publishEvents, botVars, harnessVars>>

\* tractor-utils.ts lines 931-1196: one call of the loader; fetchOk is whether the two
\* event queries gave their result (the catch of line 1192 throws again when not)
LoadCall(address, requisitionType, fetchOk) ==
    /\ ldCall.made < MaxLoads
    /\ ldCall' = [made |-> ldCall.made + 1, address |-> address,
                  requisitionType |-> requisitionType, threw |-> ~fetchOk]
    /\ ldPrev' = requisitions
    /\ IF fetchOk
       THEN /\ fetchedPublish' = publishEvents
            /\ fetchedCancel' = cancelEvents
            /\ requisitions' = loadPublishedRequisitions(address, publishEvents,
                                                         CancelledHashes(cancelEvents),
                                                         requisitionType)
       ELSE UNCHANGED <<fetchedPublish, fetchedCancel, requisitions>>
    /\ UNCHANGED <<ledgerVars, procVars, envMode, clock, pc, cycle, filterReads,
                   activeRequisitions, simulationResults, checkResult, execIdx, execPc,
                   callLog, schedVars, decVars, codecVars, obsVars>>

LoadNext ==
    \/ \E event \in LoaderEvents(Len(publishEvents) + Len(cancelEvents) + 1) :
          LoadPublish(event)
    \/ \E h \in LoaderHashes : LoadCancel(h)
    \/ \E address \in LoaderAddresses, requisitionType \in LoaderTypes, fetchOk \in BOOLEAN :
          LoadCall(address, requisitionType, fetchOk)

SpecLoad == LoadInit /\ [][LoadNext]_vars

----------------------------------------------------------------------------
(* Properties of the value codec and of the round trip *)

\* the fixed-point notation of an integer with d fractional digits: the sign, the
\* whole part, and the fractional part without trailing zeros when it is not zero
FixedPointOfNat(digits, d) ==
    SubSeq(digits, 1, Len(digits) - d)
    \o (IF TrimTrailingZeros(SubSeq(digits, Len(digits) - d + 1, Len(digits))) = <<>>
        THEN <<>>
        ELSE <<".">> \o TrimTrailingZeros(SubSeq(digits, Len(digits) - d + 1, Len(digits))))

FixedPoint(v, d) ==
    IF v < 0 THEN <<"-">> \o FixedPointOfNat(padStart(NatToString(0 - v), d + 1), d)
    ELSE FixedPointOfNat(padStart(NatToString(v), d + 1), d)

\* the decoded Order Parameters equal the params tuple that was encoded
SameIntegers(data, params) ==
    /\ data.sourceTokenIndices = params.sowParams.sourceTokenIndices
    /\ data.sowAmounts.totalAmountToSow = params.sowParams.sowAmounts.totalAmountToSow
    /\ data.sowAmounts.minAmountToSowPerSeason
           = params.sowParams.sowAmounts.minAmountToSowPerSeason
    /\ data.sowAmounts.maxAmountToSowPerSeason
           = params.sowParams.sowAmounts.maxAmountToSowPerSeason
    /\ data.minTemp = params.sowParams.minTemp
    /\ data.maxPodlineLength = params.sowParams.maxPodlineLength
    /\ data.maxGrownStalkPerBdv = params.sowParams.maxGrownStalkPerBdv
    /\ data.runBlocksAfterSunrise = params.sowParams.runBlocksAfterSunrise
    /\ data.slippageRatio = params.sowParams.slippageRatio
    /\ data.operatorParams.whitelistedOperators
           = [i \in DOMAIN params.opParams.whitelistedOperators |->
                 getAddress(params.opParams.whitelistedOperators[i])]
    /\ data.operatorParams.tipAddress = getAddress(params.opParams.tipAddress)
    /\ data.operatorParams.operatorTipAmount = params.opParams.operatorTipAmount

\* the AsString fields are the fixed-point notation of the integer fields
StringsMatch(data) ==
    /\ data.sowAmounts.totalAmountToSowAsString = FixedPoint(data.sowAmounts.totalAmountToSow, 6)
    /\ data.sowAmounts.minAmountToSowPerSeasonAsString
           = FixedPoint(data.sowAmounts.minAmountToSowPerSeason, 6)
    /\ data.sowAmounts.maxAmountToSowPerSeasonAsString
           = FixedPoint(data.sowAmounts.maxAmountToSowPerSeason, 6)
    /\ data.minTempAsString = FixedPoint(data.minTemp, 6)
    /\ data.maxPodlineLengthAsString = FixedPoint(data.maxPodlineLength, 6)
    /\ data.maxGrownStalkPerBdvAsString = FixedPoint(data.maxGrownStalkPerBdv, 6)
    /\ data.runBlocksAfterSunriseAsString = FixedPoint(data.runBlocksAfterSunrise, 0)
    /\ data.slippageRatioAsString = FixedPoint(data.slippageRatio, 18)
    /\ data.operatorParams.operatorTipAmountAsString
           = FixedPoint(data.operatorParams.operatorTipAmount, 6)

\* C11: decoding the payload createSowTractorData builds from a params tuple gives
\* Order Parameters that are not null, whose integer fields equal the encoded ones and
\* whose AsString fields are the fixed-point notation of those integers.
C11_RoundTrip ==
    DecodedString =>
        \A params \in SampleStructs :
            decInput.words = EncodeSowPayload(params).data =>
                /\ decOutput.value # Null
                /\ SameIntegers(decOutput.value, params)
                /\ StringsMatch(decOutput.value)

\* C12: for every integer v, negative ones included, and every precision d,
\* TokenValue.fromBlockchain(v, d).toBigInt() returns v.
C12_ValueRoundTrip ==
    tvPc = "done" /\ tvInput.kind = "bigint" =>
        ~tvResult.threw /\ tvResult.value = tvInput.value

\* the number of decimal points of a string
Points(str) == Cardinality({i \in DOMAIN str : str[i] = "."})

\* the string is negative, has more than one decimal point, or has more fractional
\* digits than the precision
Malformed(str, d) ==
    \/ str # <<>> /\ str[1] = "-"
    \/ Points(str) > 1
    \/ Points(str) = 1 /\ Len(str) - IndexFrom(str, ".", 1) > d

\* C13: toBigInt() of a TokenValue made of a negative string, of a string with more
\* than one decimal point or of a string with more fractional digits than the
\* precision is an error, never an integer.
C13_MalformedRejected ==
    tvPc = "done" /\ tvInput.kind = "string" /\ Malformed(tvInput.text, tvInput.decimals)
        => tvResult.threw

----------------------------------------------------------------------------
(* Properties of the simulations and of the ranking *)

\* the profit estimate of the candidate at a rank of the returned list
ProfitAt(k) == checkResult.executableRequisitions[k].estimatedProfitUsd

\* C14: in the returned executableRequisitions, for all ranks i < j, either both
\* candidates have a profit estimate and the one at i is not smaller, or the candidate
\* at j has no estimate.
C14_RankedByProfit ==
    \A i \in DOMAIN checkResult.executableRequisitions :
        \A j \in DOMAIN checkResult.executableRequisitions :
            i < j =>
                \/ ProfitAt(j).kind = "undefined"
                \/ /\ ProfitAt(i).kind = "number"
                   /\ ProfitAt(j).kind = "number"
                   /\ ProfitAt(i).v >= ProfitAt(j).v

\* a price lookup of this check succeeded
PriceObtained(op) == \E k \in DOMAIN callLog : callLog[k].op = op /\ callLog[k].ok

\* the dry-run succeeded and the gas estimate, the gas price and both exchange rates
\* were obtained
FullyPriced(result) ==
    /\ result.success
    /\ result.gasCostEth.kind = "number"
    /\ PriceObtained("getEthUsdPrice")
    /\ PriceObtained("getPintoUsdPrice")

TipOf(result) == result.requisition.decodedData.operatorParams.operatorTipAmount

\* the estimate is a number: the value of the tip minus the value of the gas
ProfitIsTipMinusCost(result) ==
    /\ result.estimatedProfitUsd.kind = "number"
    /\ \E ethUsdPrice \in Prices \ {0}, pintoUsdPrice \in Prices \ {0} :
          result.estimatedProfitUsd.v
              = TipOf(result) * pintoUsdPrice - result.gasCostEth.v * ethUsdPrice

\* C15: a fully priced simulation has a numeric estimatedProfitUsd equal to the tip
\* value minus the cost value, for every tip, a tip of zero included; with tip value 100
\* and cost value 40 the estimate is 60, and such a candidate is selected first when
\* it is the only one.
C15_ProfitEstimate ==
    \A i \in DOMAIN simulationResults :
        FullyPriced(simulationResults[i]) =>
            /\ ProfitIsTipMinusCost(simulationResults[i])
            /\ TipOf(simulationResults[i]) = 100 /\ simulationResults[i].gasCostUsd = Num(40) =>
                  /\ simulationResults[i].estimatedProfitUsd = Num(60)
                  /\ Len(simulationResults) = 1 /\ Eligible(simulationResults[i].requisition) =>
                        /\ checkResult.canExecute
                        /\ checkResult.requisition = simulationResults[i].requisition

\* the ledger calls with the given operation made by the simulation of
\* activeRequisitions[i]
EvaluateCalls(i, op) ==
    {k \in DOMAIN callLog :
        callLog[k].phase = "evaluate" /\ callLog[k].inv = i /\ callLog[k].op = op}

\* C16: a candidate whose dry-run failed during the evaluation has success = false and
\* a non-null error, no gas estimation and no fee lookup was attempted for it, it was
\* dry-run exactly once by the evaluation, and it is not in executableRequisitions, so
\* that no call of executeAction is made for it.
C16_FailedDryRunTerminal ==
    /\ \A i \in DOMAIN simulationResults :
          ~simulationResults[i].success =>
              /\ simulationResults[i].error # "null"
              /\ simulationResults[i].gasEstimate = Undef
              /\ simulationResults[i].gasCostEth = Undef
              /\ simulationResults[i].estimatedProfitUsd = Undef
              /\ EvaluateCalls(i, "estimateGas") = {}
              /\ EvaluateCalls(i, "getFeeData") = {}
              /\ Cardinality(EvaluateCalls(i, "staticCall")) = 1
              /\ \A k \in EvaluateCalls(i, "staticCall") : ~callLog[k].ok
              /\ \A j \in DOMAIN checkResult.executableRequisitions :
                    checkResult.executableRequisitions[j] # simulationResults[i]
    /\ \A j \in DOMAIN checkResult.executableRequisitions :
          checkResult.executableRequisitions[j].success
    /\ \A k \in ExecuteCalls : callLog[k].inv \in DOMAIN checkResult.executableRequisitions

\* a dry-run failed while another candidate of the same check went on to be executed
C16_Witness ==
    /\ \E i \in DOMAIN simulationResults :
          /\ ~simulationResults[i].success
          /\ Eligible(simulationResults[i].requisition)
    /\ checkResult.canExecute
    /\ ExecuteCalls # {}

\* the dry-run of activeRequisitions[i] succeeded, and its gas estimation, its fee
\* lookup or one of the two price lookups of the check failed
PartialFailure(i) ==
    /\ \E k \in EvaluateCalls(i, "staticCall") : callLog[k].ok
    /\ \/ \E k \in EvaluateCalls(i, "estimateGas") : ~callLog[k].ok
       \/ \E k \in EvaluateCalls(i, "getFeeData") : ~callLog[k].ok
       \/ ~PriceObtained("getEthUsdPrice")
       \/ ~PriceObtained("getPintoUsdPrice")

\* the ranks a simulation result has in the returned list
RanksOf(result) ==
    {j \in DOMAIN checkResult.executableRequisitions :
        checkResult.executableRequisitions[j] = result}

\* C17: a simulation with a partial failure still has success = true and error = null,
\* has no estimatedProfitUsd, is in the executable set iff the whitelist allows the
\* operator, and is ranked after every candidate that has a profit estimate.
C17_PartialFailureKept ==
    \A i \in DOMAIN simulationResults :
        PartialFailure(i) =>
            /\ simulationResults[i].success
            /\ simulationResults[i].error = "null"
            /\ simulationResults[i].estimatedProfitUsd = Undef
            /\ RanksOf(simulationResults[i]) # {} <=> Eligible(simulationResults[i].requisition)
            /\ \A j \in RanksOf(simulationResults[i]) :
                  \A k \in DOMAIN checkResult.executableRequisitions :
                      ProfitAt(k).kind # "undefined" => k < j

\* a candidate whose gas estimation failed was simulated before a fully priced one and
\* is ranked behind it
C17_Witness ==
    /\ Len(simulationResults) = 2
    /\ PartialFailure(1)
    /\ EvaluateCalls(1, "estimateGas") # {}
    /\ simulationResults[2].estimatedProfitUsd.kind = "number"
    /\ Len(checkResult.executableRequisitions) = 2
    /\ checkResult.executableRequisitions[2] = simulationResults[1]

----------------------------------------------------------------------------
(* Properties of the loop of monitor and of its cycles *)

\* how many of the first n logged calls are of the phase and of one of the operations
CountIn(n, phase, ops) ==
    Cardinality({k \in 1..n : callLog[k].phase = phase /\ callLog[k].op \in ops})

\* the calls of executeAction that were entered and had not returned after n logged
\* calls, and the submitted transactions whose confirmation was then still awaited
InProgressAt(n) == CountIn(n, "loop", {"executeAction"}) - CountIn(n, "loop", {"return"})

AwaitingAt(n) ==
    CountIn(n, "execute", {"wait"}) - CountIn(n, "execute", {"confirmed", "waitFailed"})

LoopEntries(op) == {p \in DOMAIN callLog : callLog[p].phase = "loop" /\ callLog[p].op = op}

\* C18: at every moment at most one executeAction is in progress and at most one
\* submitted transaction awaits its confirmation; the calls of executeAction are made
\* in ranked order, the one for rank k+1 only after the one for rank k returned, and
\* every ledger call of executeAction is made inside the call for its rank.
C18_SequentialExecution ==
    /\ \A n \in 0..Len(callLog) : InProgressAt(n) \in {0, 1} /\ AwaitingAt(n) \in {0, 1}
    /\ \A p \in LoopEntries("executeAction") :
          /\ callLog[p].inv = CountIn(p, "loop", {"executeAction"})
          /\ callLog[p].inv \in DOMAIN checkResult.executableRequisitions
          /\ callLog[p].hash =
                checkResult.executableRequisitions[callLog[p].inv].requisition.requisition.blueprintHash
          /\ callLog[p].inv > 1 =>
                \E q \in LoopEntries("return") : q < p /\ callLog[q].inv = callLog[p].inv - 1
    /\ \A p \in ExecuteCalls :
          /\ InProgressAt(p) = 1
          /\ callLog[p].inv = CountIn(p, "loop", {"executeAction"})

\* the transaction of rank 1 was submitted and confirmed, and executeAction was then
\* entered for rank 2
C18_Witness ==
    /\ \E p \in ExecuteCalls : callLog[p].op = "confirmed" /\ callLog[p].inv = 1
    /\ \E p \in LoopEntries("executeAction") : callLog[p].inv = 2

\* the cycle in progress is over: the check returned and every call of executeAction
\* the loop had to make has returned
CycleComplete ==
    /\ pc = "execLoop"
    /\ execPc = "none"
    /\ InProgressAt(Len(callLog)) = 0
    /\ checkResult.canExecute =>
          CountIn(Len(callLog), "loop", {"return"}) = Len(checkResult.executableRequisitions)

\* C19: at most one invocation of monitor is running at any time; a timer is pending
\* only while none is running, there is at most one, and it calls monitor after
\* CHECK_INTERVAL; a timer is armed only by the step that ends a cycle whose check and
\* whose executions are all over, so that its delay runs from that completion.
C19_CyclesNeverOverlap ==
    /\ [](/\ running \in {0, 1}
          /\ running = 1 <=> pc # "timer"
          /\ timers # <<>> =>
                /\ running = 0
                /\ timers = <<setTimeout("monitor", CHECK_INTERVAL)>>)
    /\ [][Len(timers') > Len(timers) => CycleComplete /\ running' = 0]_vars

\* the first cycle is over and its last step armed the timer
C19_Witness ==
    /\ cycle = 1
    /\ running = 0
    /\ timers = <<setTimeout("monitor", CHECK_INTERVAL)>>

\* the submission, or the wait for the confirmation, of the candidate failed
SubmissionFailures ==
    {p \in ExecuteCalls : callLog[p].op \in {"submitFailed", "waitFailed"}}

\* C20: when the submission or the confirmation of the candidate at rank k fails,
\* executeAction returns at once, the transaction of a rank is submitted at most once in
\* the cycle, the loop stands at rank k+1 after the return, and the cycle ends only
\* after executeAction was called for every rank.
C20_SubmissionFailureTerminal ==
    /\ [](/\ \A p \in SubmissionFailures :
                /\ p + 1 \in LoopEntries("return")
                /\ callLog[p + 1].inv = callLog[p].inv
                /\ p + 1 = Len(callLog) =>
                      /\ pc = "execLoop"
                      /\ execPc = "none"
                      /\ execIdx = callLog[p].inv + 1
          /\ \A k \in DOMAIN checkResult.executableRequisitions :
                Cardinality({p \in ExecuteCalls :
                                callLog[p].op = "submit" /\ callLog[p].inv = k}) <= 1)
    /\ [][pc = "execLoop" /\ pc' = "timer" /\ checkResult.canExecute =>
             \A k \in DOMAIN checkResult.executableRequisitions :
                 \E p \in LoopEntries("executeAction") : callLog[p].inv = k]_vars

\* the submission of rank 1 failed and executeAction was then called for rank 2
C20_Witness ==
    \E p \in SubmissionFailures :
        /\ callLog[p].inv = 1
        /\ \E q \in LoopEntries("executeAction") : q > p /\ callLog[q].inv = 2

----------------------------------------------------------------------------
(* Properties of the failures of a cycle and of the scheduler *)

\* a read of the ledger at the start of the check failed
FetchFailed == \E k \in DOMAIN callLog : callLog[k].phase = "fetch" /\ ~callLog[k].ok

\* C21: when the latest block is unavailable or an event query fails, the check
\* returns canExecute = false with an empty executable list, nothing is simulated and
\* executeAction is not called in the cycle, and the step that follows arms the timer
\* of the next cycle.
C21_FetchFailureSkipsCycle ==
    /\ [](FetchFailed =>
            /\ pc = "execLoop"
            /\ execPc = "none"
            /\ ~checkResult.canExecute
            /\ checkResult.executableRequisitions = <<>>
            /\ \A k \in DOMAIN callLog : callLog[k].phase = "fetch")
    /\ [][FetchFailed =>
            /\ running' = 0
            /\ timers' = <<setTimeout("monitor", CHECK_INTERVAL)>>]_vars

\* the query of the cancel events failed after the publish events had been fetched
C21_Witness ==
    /\ FetchFailed
    /\ fetchedPublish # <<>>
    /\ Len(callLog) = 3

\* a required setting is not in the environment
SettingAbsent == \E name \in {"RPC_URL", "PRIVATE_KEY", "PROTOCOL_ADDRESS"} : ~settings[name].set

\* no cycle was started, no call was made to the ledger and no timer was armed
NothingStarted ==
    /\ cycle = 0
    /\ running = 0
    /\ pc = "timer"
    /\ callLog = <<>>
    /\ timers = <<>>

\* C26: with RPC_URL, PRIVATE_KEY or PROTOCOL_ADDRESS missing the process does nothing
\* but exit with code 1: no cycle starts, no ledger call is made and no timer is armed;
\* an unset CHECK_INTERVAL gives 10000 ms and an unset EXECUTION_MODE gives "preview".
C26_MissingSettingFatal ==
    /\ SettingAbsent => proc \in {Loading, Exited(1)} /\ NothingStarted
    /\ proc.status = "exited" => proc.exitCode # 0 /\ NothingStarted
    /\ ~settings["CHECK_INTERVAL"].set => CHECK_INTERVAL = 10000
    /\ ~envMode.set => EXECUTION_MODE(envMode) = <<"p", "r", "e", "v", "i", "e", "w">>

\* the process exited because only PROTOCOL_ADDRESS was missing
C26_Witness ==
    /\ proc = Exited(1)
    /\ ~settings["PROTOCOL_ADDRESS"].set
    /\ MissingSettings(settings) = {"PROTOCOL_ADDRESS"}

\* C22: every started cycle eventually completes with the timer of the next cycle
\* armed, every armed timer is followed by another cycle, whatever failed in between,
\* and a started process never exits.
C22_SchedulerLiveness ==
    /\ (running = 1) ~> (running = 0 /\ timers # <<>>)
    /\ (timers # <<>>) ~> (running = 1)
    /\ [][proc = Started => proc' = Started]_vars

\* a later cycle is running: the clock was read by the filter of an earlier one
C22_Witness ==
    /\ running = 1
    /\ pc = "fetchPublish"
    /\ clock > 0

----------------------------------------------------------------------------
(* Properties of what is selected for execution *)

\* the transactions submitted in the cycle, as positions of the call log
Submissions == {p \in ExecuteCalls : callLog[p].op = "submit"}

\* C24: no order whose estimated profit is negative is passed to the submit step.
C24_OnlyProfitableSubmitted ==
    \A p \in Submissions :
        ~(ProfitAt(callLog[p].inv).kind = "number" /\ ProfitAt(callLog[p].inv).v < 0)

\* C25 as stated: in every cycle at most one order is passed to the executor.
C25_OneOrderPerCycle == Cardinality(LoopEntries("executeAction")) <= 1

\* C25: in every cycle the candidates of the ranked list, and no other order, are passed
\* to executeAction; the first one passed is the top-ranked candidate the check
\* returned as requisition, and the cycle ends only when every candidate of the list
\* was passed.
C25_EveryRankedCandidate ==
    /\ [](\A p \in LoopEntries("executeAction") :
            /\ checkResult.canExecute
            /\ \E j \in DOMAIN checkResult.executableRequisitions :
                  callLog[p].hash =
                      checkResult.executableRequisitions[j].requisition.requisition.blueprintHash
            /\ (\A q \in LoopEntries("executeAction") : p <= q) =>
                  callLog[p].hash = checkResult.requisition.requisition.blueprintHash)
    /\ [][pc = "execLoop" /\ pc' = "timer" =>
            Cardinality(LoopEntries("executeAction"))
                = IF checkResult.canExecute THEN Len(checkResult.executableRequisitions)
                  ELSE 0]_vars

\* two orders were submitted in one cycle
C25_Witness ==
    \E p \in Submissions, q \in Submissions : callLog[p].inv = 1 /\ callLog[q].inv = 2

\* C30: no dry-run and no gas estimation is issued by the evaluation for an active
\* requisition whose non-empty whitelist does not contain the operator.
C30_OnlyEligibleDryRun ==
    \A i \in DOMAIN activeRequisitions :
        ~Eligible(activeRequisitions[i]) =>
            /\ EvaluateCalls(i, "staticCall") = {}
            /\ EvaluateCalls(i, "estimateGas") = {}

----------------------------------------------------------------------------
(* Properties of loadPublishedRequisitions *)

\* the last call of the loader returned a list
Loaded == ldCall.made > 0 /\ ~ldCall.threw

HashOf(req) == req.requisition.blueprintHash

\* a CancelBlueprint event carrying the hash is among the fetched cancel events
CancelFetched(h) == \E j \in DOMAIN fetchedCancel : fetchedCancel[j].blueprintHash = h

\* C29: every requisition the loader returns is tagged isCancelled exactly when a
\* CancelBlueprint event carrying its blueprintHash is among the cancel events fetched
\* in the same call.
C29_CancellationTagging ==
    \A i \in DOMAIN requisitions :
        requisitions[i].isCancelled <=> CancelFetched(HashOf(requisitions[i]))

\* a call returned one requisition tagged cancelled and one that is not, the cancel
\* events fetched carrying the hash of the first only
C29_Witness ==
    /\ Loaded
    /\ fetchedCancel # <<>>
    /\ \E i \in DOMAIN requisitions, j \in DOMAIN requisitions :
          /\ requisitions[i].isCancelled
          /\ ~requisitions[j].isCancelled
          /\ ~CancelFetched(HashOf(requisitions[j]))

\* the publish event carries requisition data with a payload that does not decode
Undecodable(event) ==
    /\ Has(event, "args")
    /\ Has(event.args, "blueprint")
    /\ Has(event.args, "blueprintHash")
    /\ Has(event.args, "signature")
    /\ event.args.blueprint.data = UnknownPayload

InFilter(req) ==
    \E k \in DOMAIN ldCall.requisitionType.val :
        ldCall.requisitionType.val[k] = req.requisitionType

\* C28: called without a type filter, the loader retains a requisition whose payload
\* does not decode, with requisitionType "unknown" and decodedData null; called with a
\* type filter it returns exactly the requisitions whose type is in the filter, so that
\* with the filter "sowBlueprintv0" every requisition returned has decodedData.
C28_TypeFilter ==
    Loaded =>
        /\ ~ldCall.requisitionType.set =>
              \A e \in DOMAIN fetchedPublish :
                  Undecodable(fetchedPublish[e]) =>
                      \E i \in DOMAIN requisitions :
                          /\ requisitions[i].blockNumber = fetchedPublish[e].blockNumber
                          /\ requisitions[i].requisitionType = "unknown"
                          /\ requisitions[i].decodedData = Null
        /\ ldCall.requisitionType.set =>
              requisitions = SelectSeq(LoadForCycleAllTypes(fetchedPublish, fetchedCancel),
                                       InFilter)
        /\ ldCall.requisitionType = Given(<<"sowBlueprintv0">>) =>
              \A i \in DOMAIN requisitions : requisitions[i].decodedData # Null

\* a call with the filter "sowBlueprintv0" fetched an event whose payload does not decode
\* and one whose payload decodes, and returned the second alone
C28_Witness ==
    /\ Loaded
    /\ ldCall.requisitionType = Given(<<"sowBlueprintv0">>)
    /\ \E e \in DOMAIN fetchedPublish : Undecodable(fetchedPublish[e])
    /\ Len(requisitions) = 1

\* the publish event carries requisition data, as args or in topics and data that parse,
\* with a blueprint, a blueprintHash and a signature
WellFormed(event) ==
    IF Has(event, "args")
    THEN /\ ~IsUndefined(event.args)
         /\ Has(event.args, "blueprint")
         /\ Has(event.args, "blueprintHash")
         /\ Has(event.args, "signature")
         /\ event.args.signature # <<>>
    ELSE /\ event.topics[1] = TOPIC_PublishRequisition
         /\ event.data.decodes

BlockNumbers(seq) == [i \in DOMAIN seq |-> seq[i].blockNumber]

\* C27: a call of the loader whose event queries succeed returns, whatever malformed
\* events the query holds, a requisition for every well-formed event and for no other,
\* in the order of the events (without a type filter; with one, requisitions of
\* well-formed events only).
C27_MalformedEventDropped ==
    Loaded =>
        /\ \A i \in DOMAIN requisitions :
              \E e \in DOMAIN fetchedPublish :
                  /\ WellFormed(fetchedPublish[e])
                  /\ fetchedPublish[e].blockNumber = requisitions[i].blockNumber
        /\ ~ldCall.requisitionType.set =>
              BlockNumbers(requisitions) = BlockNumbers(SelectSeq(fetchedPublish, WellFormed))

\* a call fetched a malformed event followed by a well-formed one and returned the
\* requisition of the second
C27_Witness ==
    /\ Loaded
    /\ Len(fetchedPublish) = 2
    /\ ~WellFormed(fetchedPublish[1])
    /\ WellFormed(fetchedPublish[2])
    /\ BlockNumbers(requisitions) = <<fetchedPublish[2].blockNumber>>

\* C23: a requisition tagged isCancelled in the list of one call of the loader is
\* tagged isCancelled in the list of the next call, wherever its hash appears there,
\* and passes the filter of the active requisitions at no time.
C23_CancellationMonotonic ==
    \A i \in DOMAIN ldPrev :
        ldPrev[i].isCancelled =>
            \A j \in DOMAIN requisitions :
                HashOf(requisitions[j]) = HashOf(ldPrev[i]) =>
                    /\ requisitions[j].isCancelled
                    /\ \A now \in ClockValues : ~IsActive(requisitions[j], now)

\* a requisition cancelled in the list of one call is in the list of the next call,
\* which fetched a cancel event more, of another hash
C23_Witness ==
    /\ ldCall.made = 2
    /\ ~ldCall.threw
    /\ Len(fetchedCancel) = 2
    /\ fetchedCancel[1].blueprintHash # fetchedCancel[2].blueprintHash
    /\ \E i \in DOMAIN ldPrev, j \in DOMAIN requisitions :
          /\ ldPrev[i].isCancelled
          /\ HashOf(ldPrev[i]) = fetchedCancel[1].blueprintHash
          /\ HashOf(requisitions[j]) = HashOf(ldPrev[i])

----------------------------------------------------------------------------
(* Properties of the simulations, the selection and the cycles *)

\* the call op of the evaluation of active requisition i was made and succeeded / failed
EvaluateOk(i, op) == \E k \in EvaluateCalls(i, op) : callLog[k].ok

EvaluateFailed(i, op) == \E k \in EvaluateCalls(i, op) : ~callLog[k].ok

\* C31: the simulation results are one per active requisition, in the order of the
\* active requisitions; what a result holds follows from the calls made for its own
\* requisition (dry-run, gas estimation, fee lookup), whatever the calls of the others
\* gave; and a failure for one candidate leaves the check with the other candidates.
C31_SimulationsIsolated ==
    pc = "execLoop" /\ simulationResults # <<>> =>
        /\ Len(simulationResults) = Len(activeRequisitions)
        /\ \A i \in DOMAIN simulationResults :
              /\ simulationResults[i].requisition = activeRequisitions[i]
              /\ simulationResults[i].success = EvaluateOk(i, "staticCall")
              /\ (simulationResults[i].error = "null") = EvaluateOk(i, "staticCall")
              /\ (simulationResults[i].gasEstimate.kind = "number")
                    = EvaluateOk(i, "estimateGas")
              /\ EvaluateFailed(i, "getFeeData") =>
                    simulationResults[i].gasCostEth.kind = "undefined"
              /\ simulationResults[i].success /\ Eligible(activeRequisitions[i]) =>
                    /\ checkResult.canExecute
                    /\ RanksOf(simulationResults[i]) # {}

\* two requisitions were simulated: the dry-run of the first failed, the second has its
\* gas estimate and is in the list the check returned
C31_Witness ==
    /\ pc = "execLoop"
    /\ Len(simulationResults) = 2
    /\ EvaluateFailed(1, "staticCall")
    /\ EvaluateOk(2, "estimateGas")
    /\ simulationResults[2].gasEstimate.kind = "number"
    /\ RanksOf(simulationResults[2]) # {}

\* a pipe step that carries the sowBlueprintv0 call, another pipe step, a farm step
\* that carries the pipe steps, another farm step
SowPipeStep ==
    [target |-> SOW_BLUEPRINT_V0_ADDRESS, callData |-> SampleSowCall, clipboard |-> <<0, 0>>]

OtherPipeStep == [target |-> OTHER_TARGET, callData |-> <<99>>, clipboard |-> <<>>]

FarmStepOf(pipes) == [callData |-> EncodeAdvancedPipe(pipes, 0), clipboard |-> <<>>]

OtherFarmStep == [callData |-> <<99>>, clipboard |-> <<>>]

\* payloads whose batch has two steps, or whose pipe has two steps
MultiStepPayloads ==
    {EncodeAdvancedFarm(<<FarmStepOf(<<SowPipeStep, OtherPipeStep>>)>>),
     EncodeAdvancedFarm(<<FarmStepOf(<<OtherPipeStep, SowPipeStep>>)>>),
     EncodeAdvancedFarm(<<FarmStepOf(<<SowPipeStep>>), OtherFarmStep>>),
     EncodeAdvancedFarm(<<OtherFarmStep, FarmStepOf(<<SowPipeStep>>)>>)}

\* C32: the decoder returns null for a payload whose advancedFarm batch holds more than
\* one step or whose advancedPipe holds more than one pipe step.
C32_MultiStepIsNull ==
    decPc = "done" /\ decInput \in {JsString(w) : w \in MultiStepPayloads} =>
        decOutput = Returned(Null)

\* C33: the check returns canExecute = true exactly when executableRequisitions is not
\* empty; the single requisition it then returns is the one of the first element of
\* the list, and on every other path the list is empty and no requisition is returned.
C33_SelectionResult ==
    /\ checkResult.canExecute = (checkResult.executableRequisitions # <<>>)
    /\ checkResult.executableRequisitions # <<>> =>
          checkResult.requisition = checkResult.executableRequisitions[1].requisition
    /\ checkResult.executableRequisitions = <<>> => checkResult.requisition = Null

\* the check returned a list of two candidates of different orders
C33_Witness ==
    /\ checkResult.canExecute
    /\ Len(checkResult.executableRequisitions) = 2
    /\ checkResult.executableRequisitions[1].requisition
          # checkResult.executableRequisitions[2].requisition

\* the simulation result i is a candidate: its dry-run succeeded and the whitelist of
\* its order allows the operator
Candidate(i) == simulationResults[i].success /\ Eligible(activeRequisitions[i])

\* C34: the ranked list holds every eligible, successfully simulated candidate exactly
\* once and nothing else, and two candidates that both lack a profit estimate are
\* ranked in their input order.
C34_RankingPreservesCandidates ==
    pc = "execLoop" /\ simulationResults # <<>> =>
        /\ \A i \in DOMAIN simulationResults :
              Cardinality(RanksOf(simulationResults[i])) = IF Candidate(i) THEN 1 ELSE 0
        /\ Len(checkResult.executableRequisitions)
              = Cardinality({i \in DOMAIN simulationResults : Candidate(i)})
        /\ \A i \in DOMAIN simulationResults, j \in DOMAIN simulationResults :
              /\ i < j
              /\ Candidate(i)
              /\ Candidate(j)
              /\ simulationResults[i].estimatedProfitUsd.kind = "undefined"
              /\ simulationResults[j].estimatedProfitUsd.kind = "undefined"
              => \A ri \in RanksOf(simulationResults[i]), rj \in RanksOf(simulationResults[j]) :
                    ri < rj

\* two candidates without a profit estimate were ranked
C34_Witness ==
    /\ pc = "execLoop"
    /\ Len(simulationResults) = 2
    /\ Len(checkResult.executableRequisitions) = 2
    /\ \A i \in 1..2 : simulationResults[i].estimatedProfitUsd.kind = "undefined"
    /\ checkResult.executableRequisitions[1] = simulationResults[1]

\* C35: a cycle starts with nothing of the cycles before it: when the timer is awaited
\* every value a cycle computed is gone. An active requisition whose dry-run or
\* submission failed in an earlier cycle is dry-run again by the evaluation, its
\* result follows from the calls of this cycle, and when it succeeds and its whitelist
\* allows the operator it is in the list handed to the execution loop.
C35_NoCarryOver ==
    /\ pc = "timer" => NoCycleState
    /\ pc = "execLoop" /\ simulationResults # <<>> =>
          \A i \in DOMAIN activeRequisitions :
              activeRequisitions[i].requisition.blueprintHash \in failedBefore =>
                  /\ Cardinality(EvaluateCalls(i, "staticCall")) = 1
                  /\ simulationResults[i].success = EvaluateOk(i, "staticCall")
                  /\ Candidate(i) => RanksOf(simulationResults[i]) # {}

\* the transaction of an order whose dry-run or submission failed in an earlier cycle
\* is submitted
C35_Witness == \E p \in Submissions : callLog[p].hash \in failedBefore

\* C36: within one cycle executeAction is called at most once for a blueprint hash,
\* also when the publish log holds several events with this hash.
C36_OncePerHash ==
    \A p \in LoopEntries("executeAction"), q \in LoopEntries("executeAction") :
        callLog[p].hash = callLog[q].hash => p = q

\* the wall clock is inside the activation window of the blueprint
InsideWindow(bp, now) ==
    bp.startTime * MS_PER_SECOND <= now /\ now <= bp.endTime * MS_PER_SECOND

\* C37: whenever executeAction reaches the submit step for an order, the wall clock
\* is then inside the activation window of the order.
C37_SubmittedInsideWindow ==
    [][execPc # "submitting" /\ execPc' = "submitting" =>
          InsideWindow(checkResult.executableRequisitions[execIdx].requisition.requisition.blueprint,
                       clock)]_vars

\* a CancelBlueprint event carrying the hash is on the ledger
CancelOnLedger(h) == \E c \in DOMAIN cancelEvents : cancelEvents[c].blueprintHash = h

\* C38: the cancel log only grows, and the cancel events are queried after the publish
\* events: every requisition the loader returns whose cancel event is on the ledger
\* when the cancel query is answered, so also every one whose cancel event was there
\* when the publish events were fetched, is returned with isCancelled = true.
C38_NoStaleActiveOrder ==
    /\ [][SubSeq(cancelEvents', 1, Len(cancelEvents)) = cancelEvents]_vars
    /\ [][pc = "fetchCancel" /\ pc' # "fetchCancel" =>
            \A j \in DOMAIN requisitions' :
                CancelOnLedger(requisitions'[j].requisition.blueprintHash) =>
                    requisitions'[j].isCancelled]_vars

\* the loader of a cycle returned a requisition tagged cancelled
C38_Witness ==
    /\ pc \in {"simulate", "execLoop"}
    /\ fetchedPublish # <<>>
    /\ \E j \in DOMAIN requisitions :
          /\ requisitions[j].isCancelled
          /\ CancelOnLedger(requisitions[j].requisition.blueprintHash)

----------------------------------------------------------------------------
(* Properties of createSowTractorData *)

\* the parsed advancedPipe call has one pipe step, to SOW_BLUEPRINT_V0_ADDRESS, whose
\* callData is the sowBlueprintv0 call rawCall
PipeShape(pipe, rawCall) ==
    /\ pipe.status = "ok"
    /\ pipe.name = "advancedPipe"
    /\ Len(pipe.args[1]) = 1
    /\ pipe.args[1][1].target = getAddress(SOW_BLUEPRINT_V0_ADDRESS)
    /\ pipe.args[1][1].callData = rawCall
    /\ parseTransaction("sowBlueprintv0ABI", rawCall).name = "sowBlueprintv0"

\* the parsed outer call is advancedFarm with one step that carries such a pipe call
FarmShape(farm, rawCall) ==
    /\ farm.status = "ok"
    /\ farm.name = "advancedFarm"
    /\ Len(farm.args[1]) = 1
    /\ PipeShape(parseTransaction("beanstalkAbi", farm.args[1][1].callData), rawCall)

EncoderShape(out) ==
    /\ FarmShape(parseTransaction("beanstalkAbi", out.data), out.rawCall)
    /\ out.operatorPasteInstrs = <<>>

\* the parameter structs whose payload is the input of the decoder
EncodedStructs == {s \in SampleStructs : decInput = JsString(EncodeSowPayload(s).data)}

\* C39: what createSowTractorData returns has, for every parameter struct, a data
\* that is an advancedFarm call of exactly one step, whose callData is an advancedPipe
\* call of exactly one pipe step, which targets SOW_BLUEPRINT_V0_ADDRESS and carries
\* the sowBlueprintv0 call; rawCall is that innermost call and operatorPasteInstrs is
\* the empty list.
C39_EncoderShape ==
    decPc = "done" => \A s \in EncodedStructs : EncoderShape(EncodeSowPayload(s))

\* a payload of the encoder, for a struct with a whitelist and a tip, went through the
\* decoder
C39_Witness ==
    /\ decPc = "done"
    /\ \E s \in EncodedStructs :
          /\ s.opParams.operatorTipAmount = 100
          /\ Len(s.opParams.whitelistedOperators) = 2
          /\ EncodeSowPayload(s).rawCall = EncodeSowBlueprintv0(s)

====
